---- MODULE Spec2Model ----
(***************************************************************************)
(* The Level VC tool plugins (src/tools/engineer.py, src/tools/investor.py) *)
(* as a state machine: every Tool Operation is a coroutine that emits a    *)
(* start status through the host's event emitter, calls the blocking       *)
(* _make_api_request, emits a terminal status (and, for some operations,   *)
(* citations) and returns the response.                                    *)
(*                                                                         *)
(* Python str values are TLA+ strings, JSON values are tagged records.     *)
(* TLA+ strings are ASCII, so every emoji of the source is written as its  *)
(* code point between angle brackets.                                      *)
(***************************************************************************)
EXTENDS Integers, Sequences, FiniteSets, TLC

\* ------------------------------------------------------------------ bounds
\* Longest sequence Response the remote API returns in the model.
MaxItems == 2

\* ------------------------------------------------------- JSON / Python data
\* A key that a mapping does not hold.
Absent == [t |-> "absent"]
JNull == [t |-> "null"]
JStr(s) == [t |-> "str", s |-> s]
JInt(n) == [t |-> "int", n |-> n]
JBool(b) == [t |-> "bool", b |-> b]
JList(items) == [t |-> "list", items |-> items]

\* The keys the tools read from a Response, and "data" that they never read.
Keys == {"error", "row_count", "columns", "data", "citation", "quotes",
         "title", "public_url", "name"}

\* A mapping: every key of Keys either holds a value or is Absent.
JDict(f) == [t |-> "dict",
             fields |-> [k \in Keys |-> IF k \in DOMAIN f THEN f[k] ELSE Absent]]

\* isinstance(v, dict), isinstance(v, list)
IsDict(v) == v.t = "dict"
IsList(v) == v.t = "list"

\* key in mapping
Has(d, k) == d.fields[k] # Absent

\* mapping.get(key, default)
Get(d, k, default) == IF Has(d, k) THEN d.fields[k] ELSE default

\* Python truthiness of None, a str or a bool (`if symbol:`, `if event_emitter:`)
Truthy(v) ==
  CASE v.t = "null" -> FALSE
    [] v.t = "str" -> v.s # ""
    [] v.t = "bool" -> v.b
    [] v.t = "int" -> v.n # 0
    [] OTHER -> TRUE

Digit(d) == SubSeq("0123456789", d + 1, d + 1)

RECURSIVE NatStr(_)
NatStr(n) == IF n < 10 THEN Digit(n) ELSE NatStr(n \div 10) \o Digit(n % 10)

\* str(v) as an f-string interpolates a scalar
PyStr(v) ==
  CASE v.t = "str" -> v.s
    [] v.t = "null" -> "None"
    [] v.t = "bool" -> (IF v.b THEN "True" ELSE "False")
    [] v.t = "int" -> (IF v.n < 0 THEN "-" \o NatStr(-v.n) ELSE NatStr(v.n))

\* str.upper() on ASCII text
UpperChar(c) ==
  LET lower == "abcdefghijklmnopqrstuvwxyz"
      upper == "ABCDEFGHIJKLMNOPQRSTUVWXYZ"
      at == {k \in 1..26 : SubSeq(lower, k, k) = c}
  IN IF at = {} THEN c ELSE LET k == CHOOSE k \in at : TRUE IN SubSeq(upper, k, k)

RECURSIVE PyUpper(_)
PyUpper(s) ==
  IF s = "" THEN "" ELSE UpperChar(SubSeq(s, 1, 1)) \o PyUpper(SubSeq(s, 2, Len(s)))

\* s.startswith(p)
StartsWith(s, p) == Len(s) >= Len(p) /\ SubSeq(s, 1, Len(p)) = p

\* p in s
Contains(s, p) ==
  \E k \in 1..(Len(s) - Len(p) + 1) : SubSeq(s, k, k + Len(p) - 1) = p

\* s.endswith(p)
EndsWith(s, p) ==
  Len(s) >= Len(p) /\ SubSeq(s, Len(s) - Len(p) + 1, Len(s)) = p

\* len(v): defined on a list, a str and a dict, TypeError on anything else
HasLen(v) == v.t \in {"list", "str", "dict"}
PyLen(v) ==
  CASE v.t = "list" -> Len(v.items)
    [] v.t = "str" -> Len(v.s)
    [] v.t = "dict" -> Cardinality({k \in Keys : Has(v, k)})

\* --------------------------------------------------------------- exceptions
\* The direct base class of each exception class the model raises.
BaseClass(cls) ==
  CASE cls = "Exception" -> "BaseException"
    [] cls = "RuntimeError" -> "Exception"
    [] cls = "TypeError" -> "Exception"
    [] cls = "AttributeError" -> "Exception"
    [] cls = "ValueError" -> "Exception"
    [] cls = "UnicodeEncodeError" -> "ValueError"
    [] cls = "OSError" -> "Exception"
    [] cls = "TimeoutError" -> "OSError"
    [] cls = "RequestException" -> "OSError"
    [] cls = "ConnectionError" -> "RequestException"
    [] cls = "Timeout" -> "RequestException"
    [] cls = "HTTPError" -> "RequestException"
    [] cls = "JSONDecodeError" -> "RequestException"
    [] OTHER -> "object"

RECURSIVE IsInstance(_, _)
\* isinstance(e, base) for an exception e of class cls
IsInstance(cls, base) ==
  IF cls = base THEN TRUE
  ELSE IF cls \in {"BaseException", "object"} THEN FALSE
  ELSE IsInstance(BaseClass(cls), base)

NoException == "none"

\* ----------------------------------------------------------- event notifier
\* The host's event sink, when one is supplied (None is JNull).
SinkCallable == [t |-> "callable"]

\* What awaiting the sink does: it returns, or raises an exception of a class.
SinkOutcomes == {NoException, "RuntimeError", "TimeoutError"}

\* _emit_event without its try/except: the sink's exception leaves the helper.
_emit_event_unguarded(event_emitter, event_type, description, done, outcome) ==
  IF Truthy(event_emitter)
  THEN [sent |-> <<[type |-> event_type,
                    data |-> [description |-> description, done |-> done,
                              hidden |-> FALSE]]>>,
        raised |-> outcome]
  ELSE [sent |-> <<>>, raised |-> NoException]

\* _emit_event that awaits the sink without testing it: calling None raises.
_emit_event_calling_none(event_emitter, event_type, description, done, outcome) ==
  IF Truthy(event_emitter)
  THEN [sent |-> <<[type |-> event_type,
                    data |-> [description |-> description, done |-> done,
                              hidden |-> FALSE]]>>,
        raised |-> IF outcome # NoException /\ ~IsInstance(outcome, "Exception")
                   THEN outcome ELSE NoException]
  ELSE [sent |-> <<>>, raised |-> "TypeError"]

\* _emit_event: `sent` is what the sink was called with (nothing when the sink
\* is falsy), `raised` the exception that leaves the helper. `outcome` is what
\* the awaited sink does.
_emit_event(event_emitter, event_type, description, done, outcome) ==
  IF Truthy(event_emitter)
  THEN [sent |-> <<[type |-> event_type,
                    data |-> [description |-> description, done |-> done,
                              hidden |-> FALSE]]>>,
        raised |-> IF outcome # NoException /\ ~IsInstance(outcome, "Exception")
                   THEN outcome ELSE NoException]
  ELSE [sent |-> <<>>, raised |-> NoException]

\* _emit_citation, with the same shape of result as _emit_event.
_emit_citation(event_emitter, content, title, url, outcome) ==
  IF Truthy(event_emitter)
  THEN [sent |-> <<[type |-> "citation",
                    data |-> [document |-> <<content>>,
                              source |-> [name |-> title, url |-> url]]]>>,
        raised |-> IF outcome # NoException /\ ~IsInstance(outcome, "Exception")
                   THEN outcome ELSE NoException]
  ELSE [sent |-> <<>>, raised |-> NoException]

\* -------------------------------------------------------- request dispatcher
BaseUrl == "https://api.lvcdev.com"

\* A body that is not JSON: response.json() raises on it.
NotJson == [t |-> "notjson"]
\* requests.get sends no body.
NoBody == [t |-> "nobody"]

\* What the network does with one request: requests.get/post raises an
\* exception of class cls whose str() is message, or returns a response with
\* a status code and a body.
TransportRaises(cls, message) ==
  [kind |-> "raise", cls |-> cls, message |-> message, status |-> 0, body |-> Absent]
TransportResponds(status, body) ==
  [kind |-> "response", cls |-> NoException, message |-> "", status |-> status,
   body |-> body]

\* str() of the HTTPError that response.raise_for_status() raises.
HTTPErrorMessage(status, url) ==
  NatStr(status)
    \o (IF status < 500 THEN " Client Error" ELSE " Server Error")
    \o " for url: " \o url

\* str() of the error response.json() raises on a body that is not JSON.
JSONErrorMessage == "Expecting value: line 1 column 1 (char 0)"

\* The error Response for a method in its upper case instead of as passed.
unsupported_method_upper(method) ==
  JDict([error |-> JStr("Unsupported HTTP method: " \o PyUpper(method))])

\* return {"error": f"Unsupported HTTP method: {method}"}
unsupported_method(method) ==
  JDict([error |-> JStr("Unsupported HTTP method: " \o method)])

\* _make_api_request passing json=data to requests.get as well.
_make_api_request_get_with_body(method, endpoint, data, valves, transport) ==
  LET url == BaseUrl \o endpoint
      headers == [Authorization |-> "Bearer " \o valves.api_key,
                  ContentType |-> "application/json"]
      failed(message) ==
        JDict([error |-> JStr("API request failed: " \o message)])
      sent(request) ==
        IF transport.kind = "raise"
        THEN IF IsInstance(transport.cls, "RequestException")
             THEN [raised |-> NoException, value |-> failed(transport.message),
                   requests |-> <<request>>]
             ELSE [raised |-> transport.cls, value |-> Absent,
                   requests |-> <<request>>]
        ELSE IF transport.status >= 400 /\ transport.status < 600
        THEN [raised |-> NoException,
              value |-> failed(HTTPErrorMessage(transport.status, url)),
              requests |-> <<request>>]
        ELSE IF transport.body = NotJson
        THEN [raised |-> NoException, value |-> failed(JSONErrorMessage),
              requests |-> <<request>>]
        ELSE [raised |-> NoException, value |-> transport.body,
              requests |-> <<request>>]
  IN IF PyUpper(method) = "GET"
     THEN sent([method |-> "GET", url |-> url, headers |-> headers, json |-> data])
     ELSE IF PyUpper(method) = "POST"
     THEN sent([method |-> "POST", url |-> url, headers |-> headers, json |-> data])
     ELSE [raised |-> NoException, value |-> unsupported_method(method),
           requests |-> <<>>]

\* _make_api_request. `raised` is the exception that leaves the function,
\* `value` what it returns, `requests` the network requests it issued.
_make_api_request(method, endpoint, data, valves, transport) ==
  LET url == BaseUrl \o endpoint
      headers == [Authorization |-> "Bearer " \o valves.api_key,
                  ContentType |-> "application/json"]
      failed(message) ==
        JDict([error |-> JStr("API request failed: " \o message)])
      \* everything after requests.get / requests.post was called
      sent(request) ==
        IF transport.kind = "raise"
        THEN IF IsInstance(transport.cls, "RequestException")
             THEN [raised |-> NoException, value |-> failed(transport.message),
                   requests |-> <<request>>]
             ELSE [raised |-> transport.cls, value |-> Absent,
                   requests |-> <<request>>]
        ELSE IF transport.status >= 400 /\ transport.status < 600
        THEN [raised |-> NoException,
              value |-> failed(HTTPErrorMessage(transport.status, url)),
              requests |-> <<request>>]
        ELSE IF transport.body = NotJson
        THEN [raised |-> NoException, value |-> failed(JSONErrorMessage),
              requests |-> <<request>>]
        ELSE [raised |-> NoException, value |-> transport.body,
              requests |-> <<request>>]
  IN IF PyUpper(method) = "GET"
     THEN sent([method |-> "GET", url |-> url, headers |-> headers, json |-> NoBody])
     ELSE IF PyUpper(method) = "POST"
     THEN sent([method |-> "POST", url |-> url, headers |-> headers, json |-> data])
     ELSE [raised |-> NoException, value |-> unsupported_method(method),
           requests |-> <<>>]

\* ------------------------------------------------------------------- emoji
CrossMark == "<U+274C>"
CheckMark == "<U+2705>"
Magnifier == "<U+1F50D>"
Elephant == "<U+1F418>"
BarChart == "<U+1F4CA>"
PageFacingUp == "<U+1F4C4>"
Brain == "<U+1F9E0>"
OfficeBuilding == "<U+1F3E2>"
Calendar == "<U+1F4C5>"
PageWithCurl == "<U+1F4C3>"

\* ---------------------------------------------------------- tool operations
\* Each operation is an operator of its arguments `a` and of the Response
\* `result` (Absent until the dispatcher has returned) that gives
\*   endpoint, data   what it passes to _make_api_request;
\*   start            the description of its start status;
\*   error            whether it takes the error branch;
\*   failure          the description of the terminal status on that branch;
\*   raises, success  on the other branch, the exception raised while the
\*                    summary is computed (NoException: none) and the
\*                    description of the terminal status;
\*   cites            for each iteration of its citation loop, in order, the
\*                    _emit_citation calls of that iteration (none or one).

\* The characters of a query that the start status shows.
PreviewLen == 100

\* A preview that also cuts a query of exactly PreviewLen characters.
query_preview_inclusive(query) ==
  IF Len(query) >= PreviewLen THEN SubSeq(query, 1, PreviewLen) \o "..." ELSE query

\* query[:100] + "..." if len(query) > 100 else query
query_preview(query) ==
  IF Len(query) > PreviewLen THEN SubSeq(query, 1, PreviewLen) \o "..." ELSE query

NoCitations == <<>>

\* -- src/tools/engineer.py
read_athena_query(a, result) ==
  LET row_count == IF IsDict(result) THEN Get(result, "row_count", JStr("unknown"))
                   ELSE JStr("unknown")
  IN [endpoint |-> "/engineer/read-athena-query",
      start |-> Magnifier \o " Executing Athena query: " \o query_preview(a.query.s),
      data |-> [query |-> a.query],
      error |-> IsDict(result) /\ Has(result, "error"),
      failure |-> IF IsDict(result)
                  THEN CrossMark \o " Athena query failed: "
                         \o PyStr(Get(result, "error", JStr("Unknown error")))
                  ELSE "",
      raises |-> NoException,
      success |-> CheckMark \o " Athena query completed - returned "
                    \o PyStr(row_count) \o " rows",
      cites |-> NoCitations]

read_rds_query(a, result) ==
  LET row_count == IF IsDict(result) THEN Get(result, "row_count", JStr("unknown"))
                   ELSE JStr("unknown")
  IN [endpoint |-> "/engineer/read-rds-query",
      start |-> Elephant \o " Executing PostgreSQL query: " \o query_preview(a.query.s),
      data |-> [query |-> a.query],
      error |-> IsDict(result) /\ Has(result, "error"),
      failure |-> IF IsDict(result)
                  THEN CrossMark \o " PostgreSQL query failed: "
                         \o PyStr(Get(result, "error", JStr("Unknown error")))
                  ELSE "",
      raises |-> NoException,
      success |-> CheckMark \o " PostgreSQL query completed - returned "
                    \o PyStr(row_count) \o " rows",
      cites |-> NoCitations]

get_athena_table_info(a, result) ==
  LET columns == IF IsDict(result) THEN Get(result, "columns", JList(<<>>))
                 ELSE JList(<<>>)
      \* len(result.get("columns", [])): a TypeError when the value has no len()
      columns_count == IF IsDict(result)
                       THEN (IF HasLen(columns) THEN NatStr(PyLen(columns)) ELSE "")
                       ELSE "unknown"
  IN [endpoint |-> "/engineer/get-athena-table-info",
      start |-> BarChart \o " Fetching table schema for " \o PyStr(a.table_name),
      data |-> [table_name |-> a.table_name],
      error |-> IsDict(result) /\ Has(result, "error"),
      failure |-> IF IsDict(result)
                  THEN CrossMark \o " Failed to fetch table info: "
                         \o PyStr(Get(result, "error", JStr("Unknown error")))
                  ELSE "",
      raises |-> IF IsDict(result) /\ ~HasLen(columns) THEN "TypeError"
                 ELSE NoException,
      success |-> CheckMark \o " Successfully fetched schema for "
                    \o PyStr(a.table_name) \o " - " \o columns_count \o " columns",
      cites |-> NoCitations]

\* -- src/tools/investor.py
\* if value: details += f", {label}={value}"
search_detail(label, value) ==
  IF Truthy(value) THEN ", " \o label \o "=" \o PyStr(value) ELSE ""

\* The _emit_citation call of the transcript operations for one mapping.
transcript_citation(item) ==
  [content |-> Get(item, "quotes", JStr("")),
   title |-> Get(item, "citation", JStr("")),
   url |-> JStr("https://levelvc.com")]

\* The _emit_citation call of the knowledge operations for one mapping.
knowledge_citation(item) ==
  [content |-> Get(item, "quotes", JStr("")),
   title |-> JStr("Knowledge Page " \o PyStr(Get(item, "title", JStr("Unknown")))),
   url |-> Get(item, "public_url", JStr(""))]

\* The citation loop that skips a mapping without quotes.
for_each_item_with_quotes(result, family) ==
  IF IsList(result)
  THEN [k \in DOMAIN result.items |->
          IF IsDict(result.items[k]) /\ Has(result.items[k], "quotes")
          THEN <<IF family = "transcript" THEN transcript_citation(result.items[k])
                 ELSE knowledge_citation(result.items[k])>>
          ELSE <<>>]
  ELSE <<>>

\* if isinstance(result, list): for item in result: if isinstance(item, dict): ...
\* with the _emit_citation call of the transcript or of the knowledge operations.
for_each_item(result, family) ==
  IF IsList(result)
  THEN [k \in DOMAIN result.items |->
          IF IsDict(result.items[k])
          THEN <<IF family = "transcript" THEN transcript_citation(result.items[k])
                 ELSE knowledge_citation(result.items[k])>>
          ELSE <<>>]
  ELSE <<>>

\* A count that takes the length of a mapping as well as of a sequence.
result_count_of_any_container(result) ==
  IF IsList(result) \/ IsDict(result) THEN NatStr(PyLen(result)) ELSE "unknown"

\* len(result) if isinstance(result, list) else "unknown"
result_count(result) == IF IsList(result) THEN NatStr(Len(result.items)) ELSE "unknown"

semantic_search_transcripts(a, result) ==
  LET search_details ==
        "query='" \o PyStr(a.query) \o "', search_type='" \o PyStr(a.search_type)
          \o "', limit=" \o PyStr(a.limit)
          \o search_detail("symbol", a.symbol) \o search_detail("year", a.year)
          \o search_detail("quarter", a.quarter)
  IN [endpoint |-> "/investor/semantic-search-transcripts",
      start |-> Magnifier \o " Searching earnings transcripts with semantic search ("
                  \o search_details \o ")",
      data |-> [query |-> a.query, search_type |-> a.search_type, limit |-> a.limit,
                symbol |-> a.symbol, year |-> a.year, quarter |-> a.quarter,
                min_year |-> a.min_year, max_year |-> a.max_year,
                extract_quotes |-> a.extract_quotes],
      error |-> IsDict(result) /\ Has(result, "error"),
      failure |-> IF IsDict(result)
                  THEN CrossMark \o " Semantic search failed: "
                         \o PyStr(Get(result, "error", JStr("Unknown error")))
                  ELSE "",
      raises |-> NoException,
      success |-> CheckMark \o " Semantic search completed - found "
                    \o result_count(result) \o " results",
      cites |-> for_each_item(result, "transcript")]

keyword_search_transcripts(a, result) ==
  LET search_details ==
        "keywords='" \o PyStr(a.keywords) \o "', match_type='" \o PyStr(a.match_type)
          \o "', limit=" \o PyStr(a.limit)
          \o search_detail("symbol", a.symbol) \o search_detail("year", a.year)
          \o search_detail("quarter", a.quarter)
  IN [endpoint |-> "/investor/keyword-search-transcripts",
      start |-> Magnifier \o " Searching earnings transcripts with keyword search ("
                  \o search_details \o ")",
      data |-> [keywords |-> a.keywords, limit |-> a.limit, symbol |-> a.symbol,
                year |-> a.year, quarter |-> a.quarter, min_year |-> a.min_year,
                max_year |-> a.max_year, match_type |-> a.match_type,
                extract_quotes |-> a.extract_quotes],
      error |-> IsDict(result) /\ Has(result, "error"),
      failure |-> IF IsDict(result)
                  THEN CrossMark \o " Keyword search failed: "
                         \o PyStr(Get(result, "error", JStr("Unknown error")))
                  ELSE "",
      raises |-> NoException,
      success |-> CheckMark \o " Keyword search completed - found "
                    \o result_count(result) \o " results",
      cites |-> for_each_item(result, "transcript")]

\* get_transcript_details sending symbol and quarter as the caller gave them.
get_transcript_details_verbatim(a, result) ==
  LET subject == PyUpper(a.symbol.s) \o " " \o PyStr(a.year) \o " "
                   \o PyUpper(a.quarter.s)
  IN [endpoint |-> "/investor/transcript-details",
      start |-> PageFacingUp \o " Fetching transcript details for " \o subject,
      data |-> [symbol |-> a.symbol, year |-> a.year, quarter |-> a.quarter],
      error |-> IsDict(result) /\ Has(result, "error"),
      failure |-> IF IsDict(result)
                  THEN CrossMark \o " Failed to fetch transcript: "
                         \o PyStr(Get(result, "error", JStr("Unknown error")))
                  ELSE "",
      raises |-> NoException,
      success |-> CheckMark \o " Successfully fetched transcript for " \o subject,
      cites |-> IF IsDict(result) THEN <<<<transcript_citation(result)>>>> ELSE <<>>]

get_transcript_details(a, result) ==
  LET subject == PyUpper(a.symbol.s) \o " " \o PyStr(a.year) \o " "
                   \o PyUpper(a.quarter.s)
  IN [endpoint |-> "/investor/transcript-details",
      start |-> PageFacingUp \o " Fetching transcript details for " \o subject,
      data |-> [symbol |-> JStr(PyUpper(a.symbol.s)), year |-> a.year,
                quarter |-> JStr(PyUpper(a.quarter.s))],
      error |-> IsDict(result) /\ Has(result, "error"),
      failure |-> IF IsDict(result)
                  THEN CrossMark \o " Failed to fetch transcript: "
                         \o PyStr(Get(result, "error", JStr("Unknown error")))
                  ELSE "",
      raises |-> NoException,
      success |-> CheckMark \o " Successfully fetched transcript for " \o subject,
      cites |-> IF IsDict(result) THEN <<<<transcript_citation(result)>>>> ELSE <<>>]

semantic_search_knowledge(a, result) ==
  LET search_details ==
        "query='" \o PyStr(a.query) \o "', search_type='" \o PyStr(a.search_type)
          \o "', limit=" \o PyStr(a.limit)
          \o search_detail("entity_type", a.entity_type)
  IN [endpoint |-> "/investor/semantic-search-knowledge",
      start |-> Brain \o " Searching knowledge base with semantic search ("
                  \o search_details \o ")",
      data |-> [query |-> a.query, search_type |-> a.search_type, limit |-> a.limit,
                entity_type |-> a.entity_type, extract_quotes |-> a.extract_quotes],
      error |-> IsDict(result) /\ Has(result, "error"),
      failure |-> IF IsDict(result)
                  THEN CrossMark \o " Knowledge search failed: "
                         \o PyStr(Get(result, "error", JStr("Unknown error")))
                  ELSE "",
      raises |-> NoException,
      success |-> CheckMark \o " Knowledge search completed - found "
                    \o result_count(result) \o " results",
      cites |-> for_each_item(result, "knowledge")]

find_similar_organizations(a, result) ==
  LET search_details ==
        "query='" \o PyStr(a.query) \o "', search_type='" \o PyStr(a.search_type)
          \o "', limit=" \o PyStr(a.limit)
          \o search_detail("country", a.country_code)
          \o search_detail("stage", a.funding_stage)
          \o (IF Truthy(a.use_reference_org) THEN ", reference_org=True" ELSE "")
  IN [endpoint |-> "/investor/similar-organizations",
      start |-> OfficeBuilding \o " Finding similar organizations ("
                  \o search_details \o ")",
      data |-> [query |-> a.query, search_type |-> a.search_type, limit |-> a.limit,
                country_code |-> a.country_code, funding_stage |-> a.funding_stage,
                level_portfolio |-> a.level_portfolio,
                min_funding_usd |-> a.min_funding_usd,
                max_funding_usd |-> a.max_funding_usd,
                min_market_cap |-> a.min_market_cap,
                max_market_cap |-> a.max_market_cap, status |-> a.status,
                use_reference_org |-> a.use_reference_org,
                reference_search_method |-> a.reference_search_method,
                use_llm_filtering |-> a.use_llm_filtering],
      error |-> IsDict(result) /\ Has(result, "error"),
      failure |-> IF IsDict(result)
                  THEN CrossMark \o " Organization search failed: "
                         \o PyStr(Get(result, "error", JStr("Unknown error")))
                  ELSE "",
      raises |-> NoException,
      success |-> CheckMark \o " Found " \o result_count(result)
                    \o " similar organizations",
      cites |-> NoCitations]

get_organization_details(a, result) ==
  LET org_name == IF IsDict(result) THEN Get(result, "name", a.identifier)
                  ELSE a.identifier
  IN [endpoint |-> "/investor/organization-details",
      start |-> OfficeBuilding \o " Fetching organization details for "
                  \o PyStr(a.identifier) \o " (by " \o PyStr(a.search_by) \o ")",
      data |-> [identifier |-> a.identifier, search_by |-> a.search_by],
      error |-> IsDict(result) /\ Has(result, "error"),
      failure |-> IF IsDict(result)
                  THEN CrossMark \o " Failed to fetch organization details: "
                         \o PyStr(Get(result, "error", JStr("Unknown error")))
                  ELSE "",
      raises |-> NoException,
      success |-> CheckMark \o " Successfully fetched details for " \o PyStr(org_name),
      cites |-> NoCitations]

search_documents(a, result) ==
  LET search_details ==
        "query='" \o PyStr(a.query) \o "', search_type='" \o PyStr(a.search_type)
          \o "', limit=" \o PyStr(a.limit)
          \o search_detail("author", a.author) \o search_detail("tags", a.tags)
  IN [endpoint |-> "/investor/search-documents",
      start |-> PageFacingUp \o " Searching documents (" \o search_details \o ")",
      data |-> [query |-> a.query, search_type |-> a.search_type, limit |-> a.limit,
                author |-> a.author, tags |-> a.tags,
                extract_quotes |-> a.extract_quotes],
      error |-> IsDict(result) /\ Has(result, "error"),
      failure |-> IF IsDict(result)
                  THEN CrossMark \o " Document search failed: "
                         \o PyStr(Get(result, "error", JStr("Unknown error")))
                  ELSE "",
      raises |-> NoException,
      success |-> CheckMark \o " Document search completed - found "
                    \o result_count(result) \o " documents",
      cites |-> NoCitations]

\* list_recent_documents branching on `result.get("error")` being truthy.
list_recent_documents_truthy_error(a, result) ==
  LET filter_details ==
        "limit=" \o PyStr(a.limit)
          \o search_detail("author", a.author) \o search_detail("tags", a.tags)
  IN [endpoint |-> "/investor/recent-documents",
      start |-> Calendar \o " Fetching recent documents (" \o filter_details \o ")",
      data |-> [limit |-> a.limit, author |-> a.author, tags |-> a.tags],
      error |-> IsDict(result) /\ Truthy(Get(result, "error", JNull)),
      failure |-> IF IsDict(result)
                  THEN CrossMark \o " Failed to fetch recent documents: "
                         \o PyStr(Get(result, "error", JStr("Unknown error")))
                  ELSE "",
      raises |-> NoException,
      success |-> CheckMark \o " Successfully fetched " \o result_count(result)
                    \o " recent documents",
      cites |-> NoCitations]

list_recent_documents(a, result) ==
  LET filter_details ==
        "limit=" \o PyStr(a.limit)
          \o search_detail("author", a.author) \o search_detail("tags", a.tags)
  IN [endpoint |-> "/investor/recent-documents",
      start |-> Calendar \o " Fetching recent documents (" \o filter_details \o ")",
      data |-> [limit |-> a.limit, author |-> a.author, tags |-> a.tags],
      error |-> IsDict(result) /\ Has(result, "error"),
      failure |-> IF IsDict(result)
                  THEN CrossMark \o " Failed to fetch recent documents: "
                         \o PyStr(Get(result, "error", JStr("Unknown error")))
                  ELSE "",
      raises |-> NoException,
      success |-> CheckMark \o " Successfully fetched " \o result_count(result)
                    \o " recent documents",
      cites |-> NoCitations]

keyword_search_knowledge(a, result) ==
  LET search_details ==
        "keywords='" \o PyStr(a.keywords) \o "', match_type='" \o PyStr(a.match_type)
          \o "', limit=" \o PyStr(a.limit)
          \o search_detail("entity_type", a.entity_type)
  IN [endpoint |-> "/investor/keyword-search-knowledge",
      start |-> Magnifier \o " Searching knowledge base with keywords ("
                  \o search_details \o ")",
      data |-> [keywords |-> a.keywords, limit |-> a.limit,
                entity_type |-> a.entity_type, match_type |-> a.match_type,
                extract_quotes |-> a.extract_quotes],
      error |-> IsDict(result) /\ Has(result, "error"),
      failure |-> IF IsDict(result)
                  THEN CrossMark \o " Knowledge keyword search failed: "
                         \o PyStr(Get(result, "error", JStr("Unknown error")))
                  ELSE "",
      raises |-> NoException,
      success |-> CheckMark \o " Knowledge keyword search completed - found "
                    \o result_count(result) \o " results",
      cites |-> for_each_item(result, "knowledge")]

fetch_knowledge_page(a, result) ==
  LET page_title == IF IsDict(result) THEN Get(result, "title", a.uuid) ELSE a.uuid
  IN [endpoint |-> "/investor/fetch-knowledge-page",
      start |-> PageWithCurl \o " Fetching knowledge page " \o PyStr(a.uuid),
      data |-> [uuid |-> a.uuid],
      error |-> IsDict(result) /\ Has(result, "error"),
      failure |-> IF IsDict(result)
                  THEN CrossMark \o " Failed to fetch knowledge page: "
                         \o PyStr(Get(result, "error", JStr("Unknown error")))
                  ELSE "",
      raises |-> NoException,
      success |-> CheckMark \o " Successfully fetched knowledge page: "
                    \o PyStr(page_title),
      cites |-> IF IsDict(result) THEN <<<<knowledge_citation(result)>>>> ELSE <<>>]

get_document_details(a, result) ==
  LET doc_title == IF IsDict(result) THEN Get(result, "title", a.uuid) ELSE a.uuid
  IN [endpoint |-> "/investor/document-details",
      start |-> PageFacingUp \o " Fetching document details for " \o PyStr(a.uuid),
      data |-> [uuid |-> a.uuid],
      error |-> IsDict(result) /\ Has(result, "error"),
      failure |-> IF IsDict(result)
                  THEN CrossMark \o " Failed to fetch document details: "
                         \o PyStr(Get(result, "error", JStr("Unknown error")))
                  ELSE "",
      raises |-> NoException,
      success |-> CheckMark \o " Successfully fetched document: " \o PyStr(doc_title),
      cites |-> NoCitations]

EngineerOps == {"read_athena_query", "read_rds_query", "get_athena_table_info"}

InvestorOps ==
  {"semantic_search_transcripts", "keyword_search_transcripts",
   "get_transcript_details", "semantic_search_knowledge",
   "find_similar_organizations", "get_organization_details", "search_documents",
   "list_recent_documents", "keyword_search_knowledge", "fetch_knowledge_page",
   "get_document_details"}

Ops == EngineerOps \cup InvestorOps

\* The method `op` of Tools, called with arguments a, once its Response is result.
Operation(op, a, result) ==
  CASE op = "read_athena_query" -> read_athena_query(a, result)
    [] op = "read_rds_query" -> read_rds_query(a, result)
    [] op = "get_athena_table_info" -> get_athena_table_info(a, result)
    [] op = "semantic_search_transcripts" -> semantic_search_transcripts(a, result)
    [] op = "keyword_search_transcripts" -> keyword_search_transcripts(a, result)
    [] op = "get_transcript_details" -> get_transcript_details(a, result)
    [] op = "semantic_search_knowledge" -> semantic_search_knowledge(a, result)
    [] op = "find_similar_organizations" -> find_similar_organizations(a, result)
    [] op = "get_organization_details" -> get_organization_details(a, result)
    [] op = "search_documents" -> search_documents(a, result)
    [] op = "list_recent_documents" -> list_recent_documents(a, result)
    [] op = "keyword_search_knowledge" -> keyword_search_knowledge(a, result)
    [] op = "fetch_knowledge_page" -> fetch_knowledge_page(a, result)
    [] op = "get_document_details" -> get_document_details(a, result)

\* ------------------------------------------------------------ the host's calls
RECURSIVE Repeat(_, _)
Repeat(s, n) == IF n = 0 THEN "" ELSE s \o Repeat(s, n - 1)

\* A query of 101 characters, one more than the start status shows.
LongQuery == "SELECT " \o Repeat("x", PreviewLen - 6)

\* A query of exactly as many characters as the start status shows.
FullQuery == "SELECT " \o Repeat("y", PreviewLen - 7)

\* The arguments the host calls each operation with: the signature's defaults
\* where it has them, and a call that sets the optional filters (with a limit
\* above the documented maximum and lower-case symbols).
Inputs(op) ==
  CASE op \in {"read_athena_query", "read_rds_query"} ->
         {[query |-> JStr("SELECT 1")], [query |-> JStr(FullQuery)],
          [query |-> JStr(LongQuery)]}
    [] op = "get_athena_table_info" -> {[table_name |-> JStr("db.t")]}
    [] op = "semantic_search_transcripts" ->
         {[query |-> JStr("ai"), search_type |-> JStr("balanced"),
           limit |-> JStr("30"), symbol |-> JNull, year |-> JNull,
           quarter |-> JNull, min_year |-> JNull, max_year |-> JNull,
           extract_quotes |-> JBool(TRUE)],
          [query |-> JStr("ai"), search_type |-> JStr("tight"),
           limit |-> JStr("500"), symbol |-> JStr("aapl"), year |-> JStr("2024"),
           quarter |-> JStr("q1"), min_year |-> JStr("2020"),
           max_year |-> JStr("2025"), extract_quotes |-> JBool(FALSE)]}
    [] op = "keyword_search_transcripts" ->
         {[keywords |-> JStr("ai"), limit |-> JStr("25"), symbol |-> JNull,
           year |-> JNull, quarter |-> JNull, min_year |-> JNull,
           max_year |-> JNull, match_type |-> JStr("any"),
           extract_quotes |-> JBool(TRUE)],
          [keywords |-> JStr("ai,ml"), limit |-> JStr("500"),
           symbol |-> JStr("aapl"), year |-> JStr("2024"), quarter |-> JStr("q1"),
           min_year |-> JStr("2020"), max_year |-> JStr("2025"),
           match_type |-> JStr("all"), extract_quotes |-> JBool(FALSE)]}
    [] op = "get_transcript_details" ->
         {[symbol |-> JStr("AAPL"), year |-> JStr("2024"), quarter |-> JStr("Q1")],
          [symbol |-> JStr("aapl"), year |-> JStr("1024"), quarter |-> JStr("q9")]}
    [] op = "semantic_search_knowledge" ->
         {[query |-> JStr("ai"), search_type |-> JStr("balanced"),
           limit |-> JStr("25"), entity_type |-> JNull,
           extract_quotes |-> JBool(TRUE)],
          [query |-> JStr("ai"), search_type |-> JStr("loose"),
           limit |-> JStr("500"), entity_type |-> JStr("people"),
           extract_quotes |-> JBool(FALSE)]}
    [] op = "find_similar_organizations" ->
         {[query |-> JStr("ai"), search_type |-> JStr("balanced"),
           limit |-> JStr("100"), country_code |-> JNull, funding_stage |-> JNull,
           level_portfolio |-> JNull, min_funding_usd |-> JNull,
           max_funding_usd |-> JNull, min_market_cap |-> JNull,
           max_market_cap |-> JNull, status |-> JStr("Active"),
           use_reference_org |-> JBool(FALSE),
           reference_search_method |-> JStr("name"),
           use_llm_filtering |-> JBool(TRUE)],
          [query |-> JStr("Stripe"), search_type |-> JStr("tight"),
           limit |-> JStr("5000"), country_code |-> JStr("us"),
           funding_stage |-> JStr("Seed"), level_portfolio |-> JStr("true"),
           min_funding_usd |-> JStr("1"), max_funding_usd |-> JStr("2"),
           min_market_cap |-> JStr("3"), max_market_cap |-> JStr("4"),
           status |-> JStr("Closed"), use_reference_org |-> JBool(TRUE),
           reference_search_method |-> JStr("domain"),
           use_llm_filtering |-> JBool(FALSE)]}
    [] op = "get_organization_details" ->
         {[identifier |-> JStr("org-1"), search_by |-> JStr("uuid")],
          [identifier |-> JStr("Acme"), search_by |-> JStr("name")]}
    [] op = "search_documents" ->
         {[query |-> JStr("ai"), search_type |-> JStr("balanced"),
           limit |-> JStr("25"), author |-> JNull, tags |-> JNull,
           extract_quotes |-> JBool(TRUE)],
          [query |-> JStr("ai"), search_type |-> JStr("tight"),
           limit |-> JStr("500"), author |-> JStr("Ann"), tags |-> JStr("a,b"),
           extract_quotes |-> JBool(FALSE)]}
    [] op = "list_recent_documents" ->
         {[limit |-> JStr("50"), author |-> JNull, tags |-> JNull],
          [limit |-> JStr("1000"), author |-> JStr("Ann"), tags |-> JStr("a,b")]}
    [] op = "keyword_search_knowledge" ->
         {[keywords |-> JStr("ai"), limit |-> JStr("25"), entity_type |-> JNull,
           match_type |-> JStr("any"), extract_quotes |-> JBool(TRUE)],
          [keywords |-> JStr("ai,ml"), limit |-> JStr("500"),
           entity_type |-> JStr("people"), match_type |-> JStr("all"),
           extract_quotes |-> JBool(FALSE)]}
    [] op \in {"fetch_knowledge_page", "get_document_details"} ->
         {[uuid |-> JStr("u-1")]}

\* The credentials the tool instance is configured with (Valves.api_key).
ApiKeys == {"", "k3y"}

\* What the host passes as __event_emitter__.
EventEmitters == {JNull, SinkCallable}

\* ------------------------------------------------------ the remote API's answers
ItemTranscript == JDict([citation |-> JStr("AAPL 2024 Q1"), quotes |-> JStr("q-t")])
ItemKnowledge ==
  JDict([title |-> JStr("Page"), public_url |-> JStr("https://kb/p"),
         quotes |-> JStr("q-k")])
ItemEmpty == JDict(<<>>)
ItemText == JStr("text")
ItemError == JDict([error |-> JStr("item failed")])

Items == {ItemTranscript, ItemKnowledge, ItemEmpty, ItemText, ItemError}

\* Every sequence of at most MaxItems items.
SequenceBodies == UNION {{JList(s) : s \in [1..n -> Items]} : n \in 0..MaxItems}

MappingBodies ==
  {JDict(<<>>),
   JDict([error |-> JStr("boom")]),
   JDict([error |-> JNull]),
   JDict([error |-> JStr("boom"), row_count |-> JInt(3), title |-> JStr("Page"),
          quotes |-> JStr("q")]),
   JDict([data |-> JList(<<ItemEmpty, ItemEmpty, ItemEmpty>>), row_count |-> JInt(3)]),
   JDict([row_count |-> JNull]),
   JDict([columns |-> JList(<<JStr("id"), JStr("name")>>)]),
   JDict([columns |-> JNull]),
   JDict([columns |-> JInt(2)]),
   JDict([name |-> JStr("Acme Inc")]),
   ItemTranscript,
   ItemKnowledge}

ScalarBodies == {JStr("ok"), JNull, JInt(7)}

\* The parsed bodies response.json() can return.
Bodies == MappingBodies \cup SequenceBodies \cup ScalarBodies

\* What the network can do with a request.
Transports ==
  {TransportResponds(200, b) : b \in Bodies \cup {NotJson}}
    \cup {TransportResponds(s, JDict([error |-> JStr("remote")])) : s \in {404, 500}}
    \cup {TransportRaises("ConnectionError", "Connection refused"),
          TransportRaises("Timeout", "Read timed out"),
          TransportRaises("UnicodeEncodeError",
                          "'latin-1' codec can't encode character")}

\* ------------------------------------------------------------ tracing wrapper
\* -- src/backend/open_webui/utils/langfuse.py
\* Most calls of the wrapper in one behaviour.
MaxCalls == 3

\* A reference to the k-th object constructed in the process.
Ref(k) == [t |-> "ref", at |-> k]

\* Langfuse(secret_key=..., public_key=..., host=...): the client object.
Langfuse(secret_key, public_key, host) ==
  [t |-> "Langfuse", secret_key |-> secret_key, public_key |-> public_key,
   host |-> host]

\* What a call of the Langfuse constructor does: it returns the client or
\* raises.
ConstructorOutcomes == {NoException, "RuntimeError"}

MissingKeys ==
  "Langfuse is enabled but missing required keys (LANGFUSE_SECRET_KEY, LANGFUSE_PUBLIC_KEY)"

\* get_langfuse_client that constructs a client whatever the keys are.
get_langfuse_client_unchecked(cached, secret_key, public_key, host, fresh, outcome) ==
  IF cached = JNull
  THEN IF outcome # NoException
       THEN [raised |-> outcome, message |-> "", value |-> Absent,
             cached |-> cached, built |-> <<>>, log |-> <<>>]
       ELSE [raised |-> NoException, message |-> "", value |-> Ref(fresh),
             cached |-> Ref(fresh),
             built |-> <<Langfuse(secret_key, public_key, host)>>,
             log |-> <<"info">>]
  ELSE [raised |-> NoException, message |-> "", value |-> cached,
        cached |-> cached, built |-> <<>>, log |-> <<>>]

\* get_langfuse_client that constructs a client on every call, cached or not.
get_langfuse_client_uncached(cached, secret_key, public_key, host, fresh, outcome) ==
  IF ~Truthy(secret_key) \/ ~Truthy(public_key)
  THEN [raised |-> "ValueError", message |-> MissingKeys, value |-> Absent,
        cached |-> cached, built |-> <<>>, log |-> <<"warning">>]
  ELSE IF outcome # NoException
  THEN [raised |-> outcome, message |-> "", value |-> Absent,
        cached |-> cached, built |-> <<>>, log |-> <<>>]
  ELSE [raised |-> NoException, message |-> "", value |-> Ref(fresh),
        cached |-> Ref(fresh),
        built |-> <<Langfuse(secret_key, public_key, host)>>,
        log |-> <<"info">>]

\* get_langfuse_client(), with the module's global `cached` and the three
\* settings it imports; `fresh` is the address a new object gets and `outcome`
\* what the constructor does. `raised` is the exception that leaves the
\* function, `value` what it returns, `cached` the global afterwards, `built`
\* the objects it constructed, `log` the levels it logged at.
get_langfuse_client(cached, secret_key, public_key, host, fresh, outcome) ==
  IF cached = JNull
  THEN IF ~Truthy(secret_key) \/ ~Truthy(public_key)
       THEN [raised |-> "ValueError", message |-> MissingKeys, value |-> Absent,
             cached |-> cached, built |-> <<>>, log |-> <<"warning">>]
       ELSE IF outcome # NoException
       THEN [raised |-> outcome, message |-> "", value |-> Absent,
             cached |-> cached, built |-> <<>>, log |-> <<>>]
       ELSE [raised |-> NoException, message |-> "", value |-> Ref(fresh),
             cached |-> Ref(fresh),
             built |-> <<Langfuse(secret_key, public_key, host)>>,
             log |-> <<"info">>]
  ELSE [raised |-> NoException, message |-> "", value |-> cached,
        cached |-> cached, built |-> <<>>, log |-> <<>>]

\* The prompts the tracing backend holds, by name.
PromptNames == {"system", "missing"}
PromptText(prompt_name) ==
  IF prompt_name = "system" THEN JStr("You are a helpful analyst.") ELSE Absent

\* get_prompt(prompt_name): langfuse_client.get_prompt(prompt_name).compile()
\* raises when the backend holds no such prompt.
get_prompt(prompt_name, cached, secret_key, public_key, host, fresh, outcome) ==
  LET got == get_langfuse_client(cached, secret_key, public_key, host, fresh, outcome)
  IN IF got.raised # NoException THEN got
     ELSE IF PromptText(prompt_name) = Absent
     THEN [got EXCEPT !.raised = "Exception", !.value = Absent]
     ELSE [got EXCEPT !.value = PromptText(prompt_name)]

\* str.rstrip("/")
RECURSIVE RStripSlash(_)
RStripSlash(s) ==
  IF s # "" /\ SubSeq(s, Len(s), Len(s)) = "/"
  THEN RStripSlash(SubSeq(s, 1, Len(s) - 1))
  ELSE s

\* The spans the wrapper is handed: an object whose trace_id is a value, an
\* object whose trace_id property raises, or None (no attribute trace_id).
SpanWith(trace_id) == [t |-> "span", trace_id |-> trace_id, raises |-> NoException]
SpanRaising(cls) == [t |-> "span", trace_id |-> Absent, raises |-> cls]
Spans ==
  {SpanWith(JStr("abc123")), SpanWith(JStr("")), SpanWith(JNull),
   SpanRaising("RuntimeError"), JNull}

\* get_trace_url_from_span that keeps the host as it is configured.
get_trace_url_from_span_unstripped(span, host) ==
  IF span = JNull \/ span.raises # NoException
  THEN [raised |-> NoException, value |-> JNull, log |-> <<"warning">>]
  ELSE IF Truthy(span.trace_id) /\ Truthy(host)
  THEN [raised |-> NoException,
        value |-> JStr(host.s \o "/trace/" \o PyStr(span.trace_id)),
        log |-> <<>>]
  ELSE [raised |-> NoException, value |-> JNull, log |-> <<>>]

\* get_trace_url_from_span(span), with the LANGFUSE_HOST the module imports.
\* Reading span.trace_id raises AttributeError on None and whatever the
\* property raises; `except Exception` turns both into None.
get_trace_url_from_span(span, host) ==
  LET reading == IF span = JNull THEN "AttributeError"
                 ELSE span.raises
  IN IF reading # NoException
     THEN IF IsInstance(reading, "Exception")
          THEN [raised |-> NoException, value |-> JNull, log |-> <<"warning">>]
          ELSE [raised |-> reading, value |-> Absent, log |-> <<>>]
     ELSE IF Truthy(span.trace_id) /\ Truthy(host)
     THEN [raised |-> NoException,
           value |-> JStr(RStripSlash(host.s) \o "/trace/" \o PyStr(span.trace_id)),
           log |-> <<>>]
     ELSE [raised |-> NoException, value |-> JNull, log |-> <<>>]

\* The values open_webui.env gives the three settings.
SecretKeys == {JNull, JStr(""), JStr("sk-lf-1")}
PublicKeys == {JNull, JStr("pk-lf-1")}
Hosts == {JNull, JStr(""), JStr("https://cloud.langfuse.com"), JStr("https://lf.local//")}

\* ------------------------------------------------------------------- state
VARIABLES
  self,           \* the Tools instance: its valves (the credential) and citation flag
  live,           \* the invocations the host makes in this behaviour
  pc,             \* where each invocation is
  op,             \* the method each invocation calls
  args,           \* its arguments
  event_emitter,  \* its __event_emitter__
  data,           \* the payload it built
  pending,        \* what its blocking _make_api_request call is going to produce
  result,         \* the Response _make_api_request returned to it
  branch,         \* the branch it took on the Response
  cursor,         \* the iteration of its citation loop
  ret,            \* the value it returned
  exc,            \* the exception it raised
  sinkErrors,     \* how many of its sink calls raised
  steps,          \* what it has done so far, in order
  netRequests,    \* the network requests issued for it
  sinkLog,        \* every event the sink was called with, in order
  loop,           \* the invocation that holds the event loop's thread (0: none)
  direct,         \* a call of _make_api_request made from outside the tools
  LANGFUSE_SECRET_KEY,  \* the tracing settings imported from open_webui.env
  LANGFUSE_PUBLIC_KEY,
  LANGFUSE_HOST,
  _langfuse_client,     \* the module's global: None or the cached client
  objects,              \* every Langfuse object constructed, by address
  traceCalls            \* the calls of the wrapper so far, with their outcomes

vars ==
  <<self, live, pc, op, args, event_emitter, data, pending, result, branch,
    cursor, ret, exc, sinkErrors, steps, netRequests, sinkLog, loop, direct,
    LANGFUSE_SECRET_KEY, LANGFUSE_PUBLIC_KEY, LANGFUSE_HOST, _langfuse_client,
    objects, traceCalls>>

\* The variables of the tracing wrapper: its settings and the rest.
settingVars == <<LANGFUSE_SECRET_KEY, LANGFUSE_PUBLIC_KEY, LANGFUSE_HOST>>
traceVars == <<settingVars, _langfuse_client, objects, traceCalls>>

\* The variables of an invocation that only Invoke sets.
callVars == <<op, args, event_emitter>>

NoValue == [t |-> "novalue"]
NoCall == [t |-> "nocall"]

\* The tracing wrapper after import: the settings are bound, nothing is cached.
TracingInit(secrets, publics, hosts) ==
  /\ LANGFUSE_SECRET_KEY \in secrets
  /\ LANGFUSE_PUBLIC_KEY \in publics
  /\ LANGFUSE_HOST \in hosts
  /\ _langfuse_client = JNull
  /\ objects = <<>>
  /\ traceCalls = <<>>

\* Tools() constructed with one of the credentials `keys`, and the
\* invocations the host is going to make.
ToolsInit(invocations, keys) ==
  /\ self \in {[valves |-> [api_key |-> k], citation |-> FALSE] : k \in keys}
  /\ live = invocations
  /\ pc = [i \in invocations |-> "idle"]
  /\ op = [i \in invocations |-> ""]
  /\ args = [i \in invocations |-> NoValue]
  /\ event_emitter = [i \in invocations |-> JNull]
  /\ data = [i \in invocations |-> NoValue]
  /\ pending = [i \in invocations |-> NoValue]
  /\ result = [i \in invocations |-> Absent]
  /\ branch = [i \in invocations |-> ""]
  /\ cursor = [i \in invocations |-> 0]
  /\ ret = [i \in invocations |-> NoValue]
  /\ exc = [i \in invocations |-> NoException]
  /\ sinkErrors = [i \in invocations |-> 0]
  /\ steps = [i \in invocations |-> <<>>]
  /\ netRequests = [i \in invocations |-> <<>>]
  /\ sinkLog = <<>>
  /\ loop = 0
  /\ direct = NoCall

\* The tools in a process whose tracing is not configured.
InitWith(invocations) ==
  /\ ToolsInit(invocations, ApiKeys)
  /\ TracingInit({JNull}, {JNull}, {JNull})

\* One Tool Operation invocation.
Init == InitWith({1})

\* The method of invocation i, on its arguments and the Response it has.
Op(i) == Operation(op[i], args[i], result[i])

\* A Tool Operation that calls the dispatcher without its start status.
InvokeWithoutStart(i) ==
  /\ pc[i] = "idle"
  /\ loop = 0
  /\ direct = NoCall
  /\ \E o \in Ops : \E a \in Inputs(o) : \E e \in EventEmitters :
       /\ op' = [op EXCEPT ![i] = o]
       /\ args' = [args EXCEPT ![i] = a]
       /\ event_emitter' = [event_emitter EXCEPT ![i] = e]
  /\ pc' = [pc EXCEPT ![i] = "dispatch"]
  /\ UNCHANGED <<traceVars, self, live, data, pending, result, branch, cursor, ret, exc,
                 sinkErrors, steps, netRequests, sinkLog, loop, direct>>

\* The host calls a Tool Operation: the coroutine is created with its arguments.
Invoke(i) ==
  /\ pc[i] = "idle"
  /\ loop = 0
  /\ direct = NoCall
  /\ \E o \in Ops : \E a \in Inputs(o) : \E e \in EventEmitters :
       /\ op' = [op EXCEPT ![i] = o]
       /\ args' = [args EXCEPT ![i] = a]
       /\ event_emitter' = [event_emitter EXCEPT ![i] = e]
  /\ pc' = [pc EXCEPT ![i] = "start"]
  /\ UNCHANGED <<traceVars, self, live, data, pending, result, branch, cursor, ret, exc,
                 sinkErrors, steps, netRequests, sinkLog, loop, direct>>

\* A notifier call that is scheduled instead of awaited: the coroutine goes on
\* at once and the sink receives the event ahead of those still queued.
AwaitedOutOfOrder(i, e, outcome, step, next) ==
  /\ steps' = [steps EXCEPT ![i] = Append(@, step)]
  /\ sinkLog' = [k \in DOMAIN e.sent |-> [inv |-> i, event |-> e.sent[k]]] \o sinkLog
  /\ sinkErrors' = [sinkErrors EXCEPT
                      ![i] = IF e.sent # <<>> /\ outcome # NoException
                             THEN @ + 1 ELSE @]
  /\ pc' = [pc EXCEPT ![i] = next]
  /\ exc' = exc
  /\ loop' \in (IF e.sent # <<>> THEN {0, i} ELSE {i})

\* What an awaited notifier call `e` (_emit_event or _emit_citation, with the
\* sink doing `outcome`) does to invocation i, which goes on at `next` unless
\* the exception leaves the helper. Awaiting the sink may suspend the coroutine.
Awaited(i, e, outcome, step, next) ==
  /\ steps' = [steps EXCEPT ![i] = Append(@, step)]
  /\ sinkLog' = sinkLog \o [k \in DOMAIN e.sent |-> [inv |-> i, event |-> e.sent[k]]]
  /\ sinkErrors' = [sinkErrors EXCEPT
                      ![i] = IF e.sent # <<>> /\ outcome # NoException
                             THEN @ + 1 ELSE @]
  /\ IF e.raised # NoException
     THEN /\ pc' = [pc EXCEPT ![i] = "raised"]
          /\ exc' = [exc EXCEPT ![i] = e.raised]
          /\ loop' = 0
     ELSE /\ pc' = [pc EXCEPT ![i] = next]
          /\ exc' = exc
          /\ loop' \in (IF e.sent # <<>> THEN {0, i} ELSE {i})

\* The outcomes of the sink that an emission through `emitter` can meet.
OutcomesFor(emitter) == IF Truthy(emitter) THEN SinkOutcomes ELSE {NoException}

\* await _emit_event(__event_emitter__, "status", <start description>, done=False)
EmitStart(i) ==
  /\ pc[i] = "start"
  /\ loop \in {0, i}
  /\ \E outcome \in OutcomesFor(event_emitter[i]) :
       Awaited(i, _emit_event(event_emitter[i], "status", Op(i).start, FALSE, outcome),
               outcome, "start_status", "dispatch")
  /\ UNCHANGED <<traceVars, self, live, callVars, data, pending, result, branch, cursor, ret,
                 netRequests, direct>>

\* A dispatcher call that sends the request a second time when the first
\* attempt failed.
CallDispatcherWithRetry(i) ==
  /\ pc[i] = "dispatch"
  /\ loop \in {0, i}
  /\ \E first \in Transports : \E transport \in Transports :
       LET attempt == _make_api_request("POST", Op(i).endpoint, Op(i).data,
                                        self.valves, first)
           r == _make_api_request("POST", Op(i).endpoint, Op(i).data, self.valves,
                                  transport)
       IN IF first.kind = "raise"
          THEN /\ pending' = [pending EXCEPT ![i] = r]
               /\ netRequests' = [netRequests EXCEPT
                                    ![i] = @ \o attempt.requests \o r.requests]
          ELSE /\ first = transport
               /\ pending' = [pending EXCEPT ![i] = r]
               /\ netRequests' = [netRequests EXCEPT ![i] = @ \o r.requests]
  /\ data' = [data EXCEPT ![i] = Op(i).data]
  /\ pc' = [pc EXCEPT ![i] = "blocked"]
  /\ steps' = [steps EXCEPT ![i] = Append(@, "dispatcher_call")]
  /\ loop' = i
  /\ UNCHANGED <<traceVars, self, live, callVars, result, branch, cursor, ret, exc,
                 sinkErrors, sinkLog, direct>>

\* data = {...}; result = _make_api_request("POST", <endpoint>, data, self.valves):
\* the call is synchronous, so the coroutine keeps the thread while it waits.
CallDispatcher(i) ==
  /\ pc[i] = "dispatch"
  /\ loop \in {0, i}
  /\ \E transport \in Transports :
       LET r == _make_api_request("POST", Op(i).endpoint, Op(i).data, self.valves,
                                  transport)
       IN /\ pending' = [pending EXCEPT ![i] = r]
          /\ netRequests' = [netRequests EXCEPT ![i] = @ \o r.requests]
  /\ data' = [data EXCEPT ![i] = Op(i).data]
  /\ pc' = [pc EXCEPT ![i] = "blocked"]
  /\ steps' = [steps EXCEPT ![i] = Append(@, "dispatcher_call")]
  /\ loop' = i
  /\ UNCHANGED <<traceVars, self, live, callVars, result, branch, cursor, ret, exc, sinkErrors,
                 sinkLog, direct>>

\* _make_api_request returns the Response, or raises.
DispatcherReturns(i) ==
  /\ pc[i] = "blocked"
  /\ loop = i
  /\ IF pending[i].raised # NoException
     THEN /\ pc' = [pc EXCEPT ![i] = "raised"]
          /\ exc' = [exc EXCEPT ![i] = pending[i].raised]
          /\ result' = result
          /\ steps' = [steps EXCEPT ![i] = Append(@, "dispatcher_raise")]
          /\ loop' = 0
     ELSE /\ pc' = [pc EXCEPT ![i] = "report"]
          /\ exc' = exc
          /\ result' = [result EXCEPT ![i] = pending[i].value]
          /\ steps' = [steps EXCEPT ![i] = Append(@, "dispatcher_result")]
          /\ loop' = i
  /\ UNCHANGED <<traceVars, self, live, callVars, data, pending, branch, cursor, ret,
                 sinkErrors, netRequests, sinkLog, direct>>

\* Where the invocation goes after iteration k - 1 of its citation loop.
AfterCitation(i, k) == IF k > Len(Op(i).cites) THEN "return" ELSE "cite"

\* The error branch followed by the citation loop.
ReportErrorThenCite(i) ==
  /\ pc[i] = "report"
  /\ loop \in {0, i}
  /\ Op(i).error
  /\ branch' = [branch EXCEPT ![i] = "ERROR"]
  /\ \E outcome \in OutcomesFor(event_emitter[i]) :
       Awaited(i, _emit_event(event_emitter[i], "status", Op(i).failure, TRUE, outcome),
               outcome, "terminal_status", AfterCitation(i, 1))
  /\ cursor' = [cursor EXCEPT ![i] = 1]
  /\ UNCHANGED <<traceVars, self, live, callVars, data, pending, result, ret, netRequests,
                 direct>>

\* if isinstance(result, dict) and "error" in result: terminal status of the
\* error branch.
ReportError(i) ==
  /\ pc[i] = "report"
  /\ loop \in {0, i}
  /\ Op(i).error
  /\ branch' = [branch EXCEPT ![i] = "ERROR"]
  /\ \E outcome \in OutcomesFor(event_emitter[i]) :
       Awaited(i, _emit_event(event_emitter[i], "status", Op(i).failure, TRUE, outcome),
               outcome, "terminal_status", "return")
  /\ UNCHANGED <<traceVars, self, live, callVars, data, pending, result, cursor, ret,
                 netRequests, direct>>

\* The success branch that starts its citation loop before any terminal status.
ReportSuccessCitingFirst(i) ==
  /\ pc[i] = "report"
  /\ loop \in {0, i}
  /\ ~Op(i).error
  /\ branch' = [branch EXCEPT ![i] = "SUCCESS"]
  /\ pc' = [pc EXCEPT ![i] = AfterCitation(i, 1)]
  /\ cursor' = [cursor EXCEPT ![i] = 1]
  /\ loop' = i
  /\ UNCHANGED <<traceVars, self, live, callVars, data, pending, result, ret, exc, sinkErrors,
                 steps, netRequests, sinkLog, direct>>

\* else: the summary is computed and the terminal status of the success branch
\* is emitted; the citation loop follows.
ReportSuccess(i) ==
  /\ pc[i] = "report"
  /\ loop \in {0, i}
  /\ ~Op(i).error
  /\ branch' = [branch EXCEPT ![i] = "SUCCESS"]
  /\ IF Op(i).raises # NoException
     THEN /\ pc' = [pc EXCEPT ![i] = "raised"]
          /\ exc' = [exc EXCEPT ![i] = Op(i).raises]
          /\ loop' = 0
          /\ UNCHANGED <<sinkLog, sinkErrors, steps, cursor>>
     ELSE /\ \E outcome \in OutcomesFor(event_emitter[i]) :
               Awaited(i, _emit_event(event_emitter[i], "status", Op(i).success, TRUE,
                                      outcome),
                       outcome, "terminal_status", AfterCitation(i, 1))
          /\ cursor' = [cursor EXCEPT ![i] = 1]
  /\ UNCHANGED <<traceVars, self, live, callVars, data, pending, result, ret, netRequests,
                 direct>>

\* One iteration of the citation loop: await _emit_citation(...) when the item
\* is a mapping, nothing otherwise.
Cite(i) ==
  /\ pc[i] = "cite"
  /\ loop \in {0, i}
  /\ LET calls == Op(i).cites[cursor[i]]
         next == AfterCitation(i, cursor[i] + 1)
     IN IF calls = <<>>
        THEN /\ pc' = [pc EXCEPT ![i] = next]
             /\ loop' = i
             /\ UNCHANGED <<sinkLog, sinkErrors, steps, exc>>
        ELSE \E outcome \in OutcomesFor(event_emitter[i]) :
               Awaited(i, _emit_citation(event_emitter[i], calls[1].content,
                                         calls[1].title, calls[1].url, outcome),
                       outcome, "citation", next)
  /\ cursor' = [cursor EXCEPT ![i] = @ + 1]
  /\ UNCHANGED <<traceVars, self, live, callVars, data, pending, result, branch, ret,
                 netRequests, direct>>

\* A return that gives None on the error branch.
ReturnNoneOnError(i) ==
  /\ pc[i] = "return"
  /\ loop \in {0, i}
  /\ ret' = [ret EXCEPT ![i] = IF branch[i] = "ERROR" THEN JNull ELSE result[i]]
  /\ pc' = [pc EXCEPT ![i] = "returned"]
  /\ steps' = [steps EXCEPT ![i] = Append(@, "return")]
  /\ loop' = 0
  /\ UNCHANGED <<traceVars, self, live, callVars, data, pending, result, branch, cursor, exc,
                 sinkErrors, netRequests, sinkLog, direct>>

\* A return that first records on the instance that the tool cited.
ReturnFlaggingCitation(i) ==
  /\ pc[i] = "return"
  /\ loop \in {0, i}
  /\ ret' = [ret EXCEPT ![i] = result[i]]
  /\ pc' = [pc EXCEPT ![i] = "returned"]
  /\ steps' = [steps EXCEPT ![i] = Append(@, "return")]
  /\ loop' = 0
  /\ self' = [self EXCEPT !.citation = cursor[i] > 0]
  /\ UNCHANGED <<traceVars, live, callVars, data, pending, result, branch, cursor,
                 exc, sinkErrors, netRequests, sinkLog, direct>>

\* return result
Return(i) ==
  /\ pc[i] = "return"
  /\ loop \in {0, i}
  /\ ret' = [ret EXCEPT ![i] = result[i]]
  /\ pc' = [pc EXCEPT ![i] = "returned"]
  /\ steps' = [steps EXCEPT ![i] = Append(@, "return")]
  /\ loop' = 0
  /\ UNCHANGED <<traceVars, self, live, callVars, data, pending, result, branch, cursor, exc,
                 sinkErrors, netRequests, sinkLog, direct>>

Next ==
  \/ \E i \in live : Invoke(i)
  \/ \E i \in live : EmitStart(i)
  \/ \E i \in live : CallDispatcher(i)
  \/ \E i \in live : DispatcherReturns(i)
  \/ \E i \in live : ReportError(i)
  \/ \E i \in live : ReportSuccess(i)
  \/ \E i \in live : Cite(i)
  \/ \E i \in live : Return(i)

Spec == Init /\ [][Next]_vars

\* ------------------------------------------- the dispatcher called on its own
\* The method strings _make_api_request is called with.
Methods == {"GET", "POST", "get", "Post", "PATCH", "patch", "DELETE", ""}

DirectEndpoints == {"/engineer/read-athena-query", "/investor/recent-documents"}

\* data: None (the default) or a payload.
DirectPayloads == {JNull, [query |-> JStr("SELECT 1")]}

\* _make_api_request(method, endpoint, data, self.valves), called once.
CallDirect ==
  /\ direct = NoCall
  /\ \A i \in live : pc[i] = "idle"
  /\ \E method \in Methods : \E endpoint \in DirectEndpoints :
     \E payload \in DirectPayloads : \E transport \in Transports :
       direct' = [method |-> method, endpoint |-> endpoint, data |-> payload,
                  transport |-> transport,
                  outcome |-> _make_api_request(method, endpoint, payload,
                                                self.valves, transport)]
  /\ UNCHANGED <<traceVars, self, live, pc, callVars, data, pending, result, branch, cursor,
                 ret, exc, sinkErrors, steps, netRequests, sinkLog, loop>>

DispatchNext == CallDirect

DispatchSpec == Init /\ [][DispatchNext]_vars

\* ------------------------------------------------ the tracing wrapper's calls
toolVars ==
  <<self, live, pc, op, args, event_emitter, data, pending, result, branch,
    cursor, ret, exc, sinkErrors, steps, netRequests, sinkLog, loop, direct>>

\* What a call leaves in the history.
TraceCall(fn, arg, outcome) ==
  [fn |-> fn, arg |-> arg, raised |-> outcome.raised, value |-> outcome.value,
   log |-> outcome.log]

\* What a call of get_langfuse_client, made on its own or by get_prompt, does
\* to the module's global and to the objects of the process.
Cached(fn, arg, got) ==
  /\ _langfuse_client' = got.cached
  /\ objects' = objects \o got.built
  /\ traceCalls' = Append(traceCalls, TraceCall(fn, arg, got))
  /\ UNCHANGED <<settingVars, toolVars>>

\* get_langfuse_client()
GetLangfuseClient ==
  /\ Len(traceCalls) < MaxCalls
  /\ \E outcome \in ConstructorOutcomes :
       Cached("get_langfuse_client", JNull,
              get_langfuse_client(_langfuse_client, LANGFUSE_SECRET_KEY,
                                  LANGFUSE_PUBLIC_KEY, LANGFUSE_HOST,
                                  Len(objects) + 1, outcome))

\* get_prompt(prompt_name)
GetPrompt ==
  /\ Len(traceCalls) < MaxCalls
  /\ \E prompt_name \in PromptNames : \E outcome \in ConstructorOutcomes :
       Cached("get_prompt", JStr(prompt_name),
              get_prompt(prompt_name, _langfuse_client, LANGFUSE_SECRET_KEY,
                         LANGFUSE_PUBLIC_KEY, LANGFUSE_HOST, Len(objects) + 1,
                         outcome))

\* get_trace_url_from_span(span)
GetTraceUrlFromSpan ==
  /\ Len(traceCalls) < MaxCalls
  /\ \E span \in Spans :
       traceCalls' = Append(traceCalls,
                            TraceCall("get_trace_url_from_span", span,
                                      get_trace_url_from_span(span, LANGFUSE_HOST)))
  /\ UNCHANGED <<settingVars, _langfuse_client, objects, toolVars>>

TracingNext ==
  \/ GetLangfuseClient
  \/ GetPrompt
  \/ GetTraceUrlFromSpan

\* The wrapper in a process with any of the settings, the tools unused.
TracingSpecInit ==
  /\ ToolsInit({}, {""})
  /\ TracingInit(SecretKeys, PublicKeys, Hosts)

TracingSpec == TracingSpecInit /\ [][TracingNext]_vars

\* ------------------------------------------------- concurrent invocations
\* The Tool Operations the host has in flight at once on its event loop: two
\* coroutines, which is what it takes for one to run while the other waits.
InFlight == {1, 2}

\* The operations, arguments and Responses of the concurrent invocations: a
\* search that cites and a query, each answered with a success, with an error
\* of the remote API or not at all (the connection is refused).
ConcurrentOps == {"semantic_search_knowledge", "read_athena_query"}

ConcurrentInputs(o) ==
  IF o = "read_athena_query" THEN {[query |-> JStr("SELECT 1")]}
  ELSE {a \in Inputs(o) : a.limit = JStr("25")}

ConcurrentResponses ==
  {JList(<<ItemKnowledge>>), JDict([error |-> JStr("boom")]),
   JDict([error |-> JStr("API request failed: Connection refused")])}

\* The host creates one of the concurrent coroutines, with the shared sink.
InvokeConcurrently(i) ==
  /\ Invoke(i)
  /\ op'[i] \in ConcurrentOps
  /\ args'[i] \in ConcurrentInputs(op'[i])
  /\ event_emitter'[i] = SinkCallable

\* Its dispatcher call, answered with one of the concurrent Responses.
CallDispatcherConcurrently(i) ==
  /\ CallDispatcher(i)
  /\ pending'[i].raised = NoException
  /\ pending'[i].value \in ConcurrentResponses

ConcurrentNext ==
  \/ \E i \in live : InvokeConcurrently(i)
  \/ \E i \in live : EmitStart(i)
  \/ \E i \in live : CallDispatcherConcurrently(i)
  \/ \E i \in live : DispatcherReturns(i)
  \/ \E i \in live : ReportError(i)
  \/ \E i \in live : ReportSuccess(i)
  \/ \E i \in live : Cite(i)
  \/ \E i \in live : Return(i)

ConcurrentInit ==
  /\ InitWith(InFlight)
  /\ self.valves.api_key = "k3y"

ConcurrentSpec == ConcurrentInit /\ [][ConcurrentNext]_vars

\* ------------------------------------------------------------------ properties
\* The invocation has ended: it returned or it raised.
Ended(i) == pc[i] \in {"returned", "raised"}

\* The host supplied a sink.
SinkSupplied(i) == event_emitter[i] = SinkCallable

\* A mapping that contains the key "error".
ErrorShaped(r) == IsDict(r) /\ Has(r, "error")

\* The events the sink received from invocation i, in order.
EventsOf(i) == SelectSeq(sinkLog, LAMBDA e : e.inv = i)

\* Its status events with the given completion flag.
StatusEvents(i, done) ==
  SelectSeq(sinkLog, LAMBDA e : /\ e.inv = i
                                /\ e.event.type = "status"
                                /\ e.event.data.done = done)

\* Its citation events.
CitationEvents(i) ==
  LET got == SelectSeq(sinkLog, LAMBDA e : e.inv = i /\ e.event.type = "citation")
  IN [k \in DOMAIN got |-> got[k].event]

\* The positions of the sink's log that hold an event of invocation i.
PositionsOf(i, type) ==
  {k \in DOMAIN sinkLog : sinkLog[k].inv = i /\ sinkLog[k].event.type = type}

\* The search operations that hold a citation loop, the operations that cite
\* their one mapping, and the search and browse operations as a whole.
ListCitingOps ==
  {"semantic_search_transcripts", "keyword_search_transcripts",
   "semantic_search_knowledge", "keyword_search_knowledge"}
SingleCitingOps == {"get_transcript_details", "fetch_knowledge_page"}
SearchBrowseOps ==
  ListCitingOps \cup {"find_similar_organizations", "search_documents",
                      "list_recent_documents"}

\* The citation event an operation builds from one mapping.
CitationOf(o, item) ==
  LET c == IF o \in {"semantic_search_transcripts", "keyword_search_transcripts",
                     "get_transcript_details"}
           THEN transcript_citation(item) ELSE knowledge_citation(item)
  IN [type |-> "citation",
      data |-> [document |-> <<c.content>>,
                source |-> [name |-> c.title, url |-> c.url]]]

\* The item carries a quote, title or URL field.
CarriesCitationFields(item) ==
  IsDict(item) /\ \E k \in {"quotes", "citation", "title", "public_url"} : Has(item, k)

\* One citation event, in order, for each item of the sequence that is a
\* mapping (withFields: that is a mapping carrying the fields).
CitationsWhere(o, r, withFields) ==
  IF IsList(r)
  THEN LET chosen == SelectSeq(r.items,
                               LAMBDA item : IF withFields
                                             THEN CarriesCitationFields(item)
                                             ELSE IsDict(item))
       IN [k \in DOMAIN chosen |-> CitationOf(o, chosen[k])]
  ELSE <<>>

\* How many citations the operation owes for its Response.
CitationsOwed(i) ==
  IF ErrorShaped(result[i]) THEN 0
  ELSE IF op[i] \in ListCitingOps /\ IsList(result[i])
  THEN Cardinality({k \in DOMAIN result[i].items : IsDict(result[i].items[k])})
  ELSE IF op[i] \in SingleCitingOps /\ IsDict(result[i]) THEN 1
  ELSE 0

\* C1: every invocation with a sink whose dispatcher call returned (whatever
\* the Response) has made exactly one start status emission (done=false) and
\* exactly one terminal status emission (done=true) by the time it ends.
C1_OneStartOneTerminalStatus ==
  \A i \in live :
    (Ended(i) /\ SinkSupplied(i) /\ result[i] # Absent)
      => /\ Len(StatusEvents(i, FALSE)) = 1
         /\ Len(StatusEvents(i, TRUE)) = 1

\* C2: the steps of one invocation come in the fixed order start status,
\* dispatcher call, dispatcher result, terminal status, return: the dispatcher
\* is called only after the start emission, the terminal status follows the
\* dispatcher's result, and the return is last.
C2_StepOrder ==
  \A i \in live :
    LET s == steps[i]
    IN /\ \A k \in DOMAIN s :
            /\ s[k] = "start_status" => k = 1
            /\ s[k] = "dispatcher_call" => k = 2 /\ s[1] = "start_status"
            /\ s[k] \in {"dispatcher_result", "dispatcher_raise"}
                 => k = 3 /\ s[2] = "dispatcher_call"
            /\ s[k] = "terminal_status" => k = 4 /\ s[3] = "dispatcher_result"
            /\ s[k] = "return" => k = Len(s) /\ k > 4 /\ s[4] = "terminal_status"
       /\ netRequests[i] # <<>>
            => /\ Len(s) >= 2
               /\ SinkSupplied(i) => Len(StatusEvents(i, FALSE)) = 1
       /\ Len(StatusEvents(i, TRUE)) > 0 => result[i] # Absent
       /\ pc[i] = "returned"
            => /\ s[Len(s)] = "return"
               /\ Len(netRequests[i]) = 1
               /\ SinkSupplied(i) => Len(StatusEvents(i, TRUE)) = 1

\* An invocation with a sink that went through all five steps and returned.
C2_Witness ==
  \E i \in live :
    /\ pc[i] = "returned"
    /\ SinkSupplied(i)
    /\ steps[i] = <<"start_status", "dispatcher_call", "dispatcher_result",
                    "terminal_status", "return">>

\* The network failed the request: the call raised, the status is an error
\* status, or the body is not JSON.
TransportFailed(t) == t.kind = "raise" \/ t.status >= 400 \/ t.body = NotJson

\* C3: for every failure of the transport, whatever exception it raises,
\* _make_api_request returns a mapping whose "error" is "API request failed:
\* <message>" and does not raise.
C3_TransportFailureIsErrorMapping ==
  (direct # NoCall /\ direct.outcome.requests # <<>>
     /\ TransportFailed(direct.transport))
    => /\ direct.outcome.raised = NoException
       /\ ErrorShaped(direct.outcome.value)
       /\ StartsWith(PyStr(direct.outcome.value.fields["error"]),
                     "API request failed: ")

\* What C4 says of a call: the error mapping echoing the method, no network
\* request, no exception.
RejectedUnsupported(call) ==
  /\ call.outcome.raised = NoException
  /\ call.outcome.requests = <<>>
  /\ call.outcome.value
       = JDict([error |-> JStr("Unsupported HTTP method: " \o call.method)])

\* C4 as stated: every method string other than GET or POST is rejected.
C4_UnsupportedMethodOriginal ==
  (direct # NoCall /\ direct.method \notin {"GET", "POST"})
    => RejectedUnsupported(direct)

\* C4 as amended: every method string that is neither GET nor POST in any
\* letter case (its upper-cased form is neither) is rejected with the error
\* mapping that echoes the method as passed, with no network request and no
\* exception.
C4_UnsupportedMethodAmended ==
  (direct # NoCall /\ PyUpper(direct.method) \notin {"GET", "POST"})
    => RejectedUnsupported(direct)

\* A lower-case unsupported method was rejected.
C4_Witness ==
  /\ direct # NoCall
  /\ direct.method = "patch"
  /\ direct.outcome.value = JDict([error |-> JStr("Unsupported HTTP method: patch")])

\* C5: a failure the sink raises on an emission is discarded: it never leaves
\* the operation, and an operation that returns after such failures made its
\* one dispatcher call and all its emissions and returns what the dispatcher
\* returned.
C5_SinkFailureDiscarded ==
  \A i \in live :
    sinkErrors[i] > 0
      => /\ exc[i] \notin (SinkOutcomes \ {NoException})
         /\ pc[i] = "returned"
              => /\ ret[i] = pending[i].value
                 /\ Len(netRequests[i]) = 1
                 /\ Len(EventsOf(i)) = 2 + CitationsOwed(i)

\* An operation returned although the sink failed on its start status, its
\* terminal status and two citations.
C5_Witness ==
  \E i \in live :
    /\ pc[i] = "returned"
    /\ sinkErrors[i] = 4
    /\ Len(CitationEvents(i)) = 2

\* C6: no citation is emitted in an invocation whose Response is error-shaped.
C6_NoCitationOnError ==
  \A i \in live :
    ErrorShaped(result[i])
      => /\ CitationEvents(i) = <<>>
         /\ \A k \in DOMAIN steps[i] : steps[i][k] # "citation"

\* A citing operation returned an error-shaped Response that has quote fields.
C6_Witness ==
  \E i \in live :
    /\ pc[i] = "returned"
    /\ SinkSupplied(i)
    /\ op[i] = "fetch_knowledge_page"
    /\ ErrorShaped(result[i])
    /\ Has(result[i], "quotes")

\* C7 as stated: on a success Response every search or browse operation emits
\* one citation for each item that carries quote/title/URL fields, in order,
\* and none for any other item.
C7_CitationPerItemWithFieldsOriginal ==
  \A i \in live :
    (pc[i] = "returned" /\ SinkSupplied(i) /\ op[i] \in SearchBrowseOps
       /\ ~ErrorShaped(result[i]))
      => CitationEvents(i) = CitationsWhere(op[i], result[i], TRUE)

\* C7 as amended: on a success Response the four operations with a citation
\* loop emit one citation for each item that is a mapping, in result order,
\* whether or not it carries quote/title/URL fields (a missing field is its
\* default), and none for any other item or for a Response that is not a
\* sequence; find_similar_organizations, search_documents and
\* list_recent_documents emit no citation.
C7_CitationPerMappingAmended ==
  \A i \in live :
    (pc[i] = "returned" /\ SinkSupplied(i) /\ op[i] \in SearchBrowseOps
       /\ ~ErrorShaped(result[i]))
      => CitationEvents(i)
           = IF op[i] \in ListCitingOps
             THEN CitationsWhere(op[i], result[i], FALSE)
             ELSE <<>>

\* A search cited a mapping without fields and then a mapping with them.
C7_Witness ==
  \E i \in live :
    /\ pc[i] = "returned"
    /\ SinkSupplied(i)
    /\ op[i] = "semantic_search_knowledge"
    /\ result[i] = JList(<<ItemEmpty, ItemKnowledge>>)
    /\ Len(CitationEvents(i)) = 2

C9_CitationsAfterTerminalStatus ==
  \A i \in live :
    /\ \A k \in DOMAIN steps[i] :
         steps[i][k] = "citation"
           => /\ k > 4
              /\ steps[i][4] = "terminal_status"
              /\ \A j \in 1..k : steps[i][j] # "return"
    /\ \A k \in PositionsOf(i, "citation") :
         \E j \in PositionsOf(i, "status") :
           j < k /\ sinkLog[j].event.data.done

\* Two citations reached the sink before the operation returned.
C9_Witness ==
  \E i \in live :
    /\ pc[i] = "returned"
    /\ Len(CitationEvents(i)) = 2
    /\ Len(StatusEvents(i, TRUE)) = 1

\* C10: the error branch is taken exactly when the Response is a mapping with
\* the key "error"; its terminal status has done=true and a description that
\* begins with the cross mark and embeds the value under "error".
C10_ErrorBranch ==
  \A i \in live :
    branch[i] # ""
      => /\ branch[i] = "ERROR" <=> ErrorShaped(result[i])
         /\ (branch[i] = "ERROR" /\ SinkSupplied(i))
              => /\ Len(StatusEvents(i, TRUE)) = 1
                 /\ LET d == StatusEvents(i, TRUE)[1].event.data
                    IN /\ d.done
                       /\ StartsWith(d.description, CrossMark)
                       /\ EndsWith(d.description,
                                   PyStr(result[i].fields["error"]))

\* The error branch was taken on a mapping whose "error" is null.
C10_Witness ==
  \E i \in live :
    /\ SinkSupplied(i)
    /\ branch[i] = "ERROR"
    /\ result[i] = JDict([error |-> JNull])
    /\ pc[i] = "returned"

\* The operations that run a query, and the search and list operations whose
\* terminal status counts the items of the Response.
QueryOps == {"read_athena_query", "read_rds_query"}
CountingOps == SearchBrowseOps

\* The description of the terminal status the sink received from invocation i.
TerminalDescription(i) == StatusEvents(i, TRUE)[1].event.data.description

\* C11: on the success branch the terminal status of a query operation embeds
\* the Response's row_count when the Response is a mapping that has one and
\* "unknown" otherwise; the terminal status of a search or list operation
\* embeds the length of the Response when it is a sequence and "unknown"
\* otherwise.
C11_SuccessCountOrUnknown ==
  \A i \in live :
    (branch[i] = "SUCCESS" /\ SinkSupplied(i) /\ Len(StatusEvents(i, TRUE)) = 1)
      => LET d == TerminalDescription(i)
             r == result[i]
         IN /\ StartsWith(d, CheckMark)
            /\ op[i] \in QueryOps
                 => IF IsDict(r) /\ Has(r, "row_count")
                    THEN EndsWith(d, "returned " \o PyStr(r.fields["row_count"])
                                       \o " rows")
                    ELSE EndsWith(d, "returned unknown rows")
            /\ op[i] \in CountingOps
                 => IF IsList(r)
                    THEN /\ Contains(d, " " \o NatStr(Len(r.items)) \o " ")
                         /\ ~Contains(d, " unknown ")
                    ELSE Contains(d, " unknown ")

\* A query operation reported the three rows of its Response, having a sink.
C11_Witness ==
  \E i \in live :
    /\ pc[i] = "returned"
    /\ SinkSupplied(i)
    /\ op[i] = "read_rds_query"
    /\ IsDict(result[i])
    /\ Has(result[i], "row_count")
    /\ TerminalDescription(i)
         = CheckMark \o " PostgreSQL query completed - returned 3 rows"

\* A list operation whose Response is a mapping without "error" reported
\* "unknown".
C11_WitnessUnknown ==
  \E i \in live :
    /\ pc[i] = "returned"
    /\ SinkSupplied(i)
    /\ op[i] = "list_recent_documents"
    /\ IsDict(result[i])
    /\ TerminalDescription(i)
         = CheckMark \o " Successfully fetched unknown recent documents"

\* The invocation has called the dispatcher.
Dispatched(i) == data[i] # NoValue

\* The payload is the caller's arguments, each under its own name and with the
\* value the caller gave.
ForwardedVerbatim(i) ==
  /\ DOMAIN data[i] = DOMAIN args[i]
  /\ \A k \in DOMAIN args[i] : data[i][k] = args[i][k]

\* C12 as stated: every operation passes each input to the dispatcher with
\* exactly the value the caller gave, and that payload is the body of the
\* request.
C12_InputsForwardedVerbatimOriginal ==
  \A i \in live :
    Dispatched(i)
      => /\ ForwardedVerbatim(i)
         /\ \A k \in DOMAIN netRequests[i] : netRequests[i][k].json = data[i]

\* C12 as amended: every operation passes each input to the dispatcher with
\* exactly the value the caller gave (a limit above the documented maximum
\* included), except get_transcript_details, which passes symbol and quarter
\* in upper case and year as given; the payload is the body of the request.
C12_InputsForwardedAmended ==
  \A i \in live :
    Dispatched(i)
      => /\ IF op[i] = "get_transcript_details"
            THEN data[i] = [symbol |-> JStr(PyUpper(args[i].symbol.s)),
                            year |-> args[i].year,
                            quarter |-> JStr(PyUpper(args[i].quarter.s))]
            ELSE ForwardedVerbatim(i)
         /\ \A k \in DOMAIN netRequests[i] : netRequests[i][k].json = data[i]

\* A search was sent with a limit above its documented maximum of 50 and a
\* lower-case symbol, both as the caller gave them.
C12_Witness ==
  \E i \in live :
    /\ op[i] = "semantic_search_transcripts"
    /\ args[i].limit = JStr("500")
    /\ Len(netRequests[i]) = 1
    /\ netRequests[i][1].json.limit = JStr("500")
    /\ netRequests[i][1].json.symbol = JStr("aapl")

\* The transport answered with a success status and a JSON body.
TransportSucceeded(t) == ~TransportFailed(t)

\* C13: for GET, _make_api_request issues one request to the fixed base
\* followed by the endpoint, with the bearer Authorization and the JSON
\* Content-Type headers and without the payload; for POST it issues one
\* request to the same URL with the same headers and the payload as its JSON
\* body; when the transport succeeds it returns the parsed body as it is.
C13_RequestShape ==
  (direct # NoCall /\ direct.method \in {"GET", "POST"})
    => /\ Len(direct.outcome.requests) = 1
       /\ LET request == direct.outcome.requests[1]
          IN /\ request.method = direct.method
             /\ request.url = "https://api.lvcdev.com" \o direct.endpoint
             /\ request.headers
                  = [Authorization |-> "Bearer " \o self.valves.api_key,
                     ContentType |-> "application/json"]
             /\ request.json
                  = IF direct.method = "GET" THEN NoBody ELSE direct.data
       /\ TransportSucceeded(direct.transport)
            => /\ direct.outcome.raised = NoException
               /\ direct.outcome.value = direct.transport.body

\* A GET called with a payload was answered with a sequence, which it returned.
C13_Witness ==
  /\ direct # NoCall
  /\ direct.method = "GET"
  /\ direct.data # JNull
  /\ self.valves.api_key = "k3y"
  /\ direct.outcome.requests[1].json = NoBody
  /\ direct.outcome.value = JList(<<ItemTranscript, ItemText>>)

\* The calls of the given functions made so far.
CallsOf(fns) == {k \in DOMAIN traceCalls : traceCalls[k].fn \in fns}

\* A required key is absent: not set, or empty.
KeysAbsent == ~Truthy(LANGFUSE_SECRET_KEY) \/ ~Truthy(LANGFUSE_PUBLIC_KEY)

\* C14: when the secret or the public key is absent, every call of
\* get_langfuse_client and of get_prompt, the first and every later one,
\* raises the configuration error (ValueError) and returns nothing, no client
\* is ever constructed and the cached client stays None.
C14_MissingKeysRaise ==
  KeysAbsent
    => /\ _langfuse_client = JNull
       /\ objects = <<>>
       /\ \A k \in CallsOf({"get_langfuse_client", "get_prompt"}) :
            /\ traceCalls[k].raised = "ValueError"
            /\ traceCalls[k].value = Absent

\* With an empty secret key and a public key, get_langfuse_client, then
\* get_prompt, then get_langfuse_client again each raised.
C14_Witness ==
  /\ LANGFUSE_SECRET_KEY = JStr("")
  /\ LANGFUSE_PUBLIC_KEY = JStr("pk-lf-1")
  /\ Len(traceCalls) = 3
  /\ traceCalls[1].fn = "get_langfuse_client"
  /\ traceCalls[2].fn = "get_prompt"
  /\ traceCalls[3].fn = "get_langfuse_client"
  /\ \A k \in 1..3 : traceCalls[k].raised = "ValueError"

\* The host supplied no sink.
SinkAbsent(i) == event_emitter[i] = JNull

\* The one request an operation's dispatcher call issues, as its arguments
\* and the credential determine it.
RequestOwed(i) ==
  [method |-> "POST",
   url |-> "https://api.lvcdev.com" \o Op(i).endpoint,
   headers |-> [Authorization |-> "Bearer " \o self.valves.api_key,
                ContentType |-> "application/json"],
   json |-> Op(i).data]

\* C15: an invocation without a sink calls no sink on any emission, raises
\* nothing of its own because of it, issues the same one request as its
\* arguments determine with a sink, and returns what the dispatcher returned.
C15_AbsentSinkIsNoOp ==
  \A i \in live :
    (pc[i] # "idle" /\ SinkAbsent(i))
      => /\ EventsOf(i) = <<>>
         /\ sinkErrors[i] = 0
         /\ exc[i] # NoException
              => /\ Dispatched(i)
                 /\ exc[i] \in {pending[i].raised, Op(i).raises}
         /\ Dispatched(i) => netRequests[i] = <<RequestOwed(i)>>
         /\ pc[i] = "returned"
              => /\ ret[i] = pending[i].value
                 /\ steps[i][1] = "start_status"
                 /\ steps[i][4] = "terminal_status"

\* A search without a sink returned a Response of two mappings, for which it
\* went through two citation emissions, and no sink was called.
C15_Witness ==
  \E i \in live :
    /\ pc[i] = "returned"
    /\ SinkAbsent(i)
    /\ op[i] = "keyword_search_transcripts"
    /\ ret[i] = JList(<<ItemTranscript, ItemEmpty>>)
    /\ Len(SelectSeq(steps[i], LAMBDA step : step = "citation")) = 2
    /\ sinkLog = <<>>

\* The kind of event each emission step of an invocation sends.
EmissionSteps(i) ==
  SelectSeq(steps[i],
            LAMBDA step : step \in {"start_status", "terminal_status", "citation"})

KindOf(e) ==
  IF e.event.type = "citation" THEN "citation"
  ELSE IF e.event.data.done THEN "terminal_status" ELSE "start_status"

\* C16: with several invocations in flight on one sink, in every interleaving
\* the sink receives the events of each invocation in the order in which that
\* invocation emitted them: its one start status, then its one terminal
\* status, then its citations.
C16_PerInvocationOrder ==
  \A i \in live :
    SinkSupplied(i)
      => /\ [k \in DOMAIN EventsOf(i) |-> KindOf(EventsOf(i)[k])] = EmissionSteps(i)
         /\ \A a \in DOMAIN EventsOf(i) : \A b \in DOMAIN EventsOf(i) :
              a < b => /\ KindOf(EventsOf(i)[b]) # "start_status"
                       /\ KindOf(EventsOf(i)[b]) = "terminal_status"
                            => KindOf(EventsOf(i)[a]) = "start_status"

\* Two searches ran in turns: the sink received their start statuses, their
\* terminal statuses and their citations alternately.
C16_Witness ==
  /\ live = InFlight
  /\ \A i \in live : pc[i] = "returned"
  /\ Len(sinkLog) = 6
  /\ [k \in 1..6 |-> sinkLog[k].inv] = <<1, 2, 1, 2, 1, 2>>
  /\ sinkLog[5].event.type = "citation"
  /\ sinkLog[6].event.type = "citation"

\* A step of invocation j's coroutine.
Progress(j) ==
  \/ EmitStart(j)
  \/ CallDispatcher(j)
  \/ DispatcherReturns(j)
  \/ ReportError(j)
  \/ ReportSuccess(j)
  \/ Cite(j)
  \/ Return(j)

\* The coroutine is between its first step and its end, ready to go on.
Ready(j) == pc[j] \in {"start", "dispatch", "report", "cite", "return"}

\* Invocation i has emitted through the sink and has not gone on since: the
\* event loop is free.
SuspendedAtSink(i) == Ready(i) /\ loop = 0 /\ EventsOf(i) # <<>>

\* Invocation i is inside requests.post, waiting for the remote API.
WaitingForDispatcher(i) == pc[i] = "blocked"

\* While invocation i is suspended at a sink emission, any other invocation
\* that is ready can take its next step.
OthersRunDuringSinkEmission ==
  \A i \in live : \A j \in live \ {i} :
    (SuspendedAtSink(i) /\ Ready(j)) => ENABLED Progress(j)

\* C17: the network call is a suspension point: while invocation i waits for
\* its dispatcher call to return, any other invocation that is ready can take
\* its next step (emit its events or start its own dispatcher call), as it
\* can while i is suspended at a sink emission.
C17_NetworkCallIsSuspensionPoint ==
  \A i \in live : \A j \in live \ {i} :
    (WaitingForDispatcher(i) /\ Ready(j)) => ENABLED Progress(j)

\* What an invocation keeps to itself: its payload, the dispatcher's outcome,
\* its Response, its return value and its requests.
PrivateState(j) == <<data[j], pending[j], result[j], ret[j], netRequests[j]>>

\* C18: no step of any invocation changes the tool instance (its credential
\* and its citation flag), and a step changes the payload, the Response, the
\* return value and the requests of the one invocation that takes it only;
\* the payload of an invocation is built from its own arguments and its
\* Response is what its own dispatcher call produced.
C18_NoSharedStateModified ==
  /\ [][/\ self' = self
        /\ \A j \in live :
             PrivateState(j)' # PrivateState(j)
               => /\ pc'[j] # pc[j]
                  /\ \A k \in live \ {j} : pc'[k] = pc[k]]_vars
  /\ [](\A j \in live :
          /\ Dispatched(j) => data[j] = Op(j).data
          /\ result[j] # Absent => result[j] = pending[j].value)

\* Two invocations with different payloads and different Responses returned,
\* each its own Response, and the instance holds the credential it was
\* constructed with.
C18_Witness ==
  /\ live = InFlight
  /\ \A i \in live : pc[i] = "returned"
  /\ op[1] = "read_athena_query"
  /\ op[2] = "semantic_search_knowledge"
  /\ ret[1] = JDict([error |-> JStr("boom")])
  /\ ret[2] = JList(<<ItemKnowledge>>)
  /\ data[1] # data[2]
  /\ self = [valves |-> [api_key |-> "k3y"], citation |-> FALSE]

\* How many times the invocation called the dispatcher.
DispatcherCalls(i) ==
  Len(SelectSeq(steps[i], LAMBDA step : step = "dispatcher_call"))

\* What a dispatcher call with the invocation's own endpoint, payload and
\* credential can produce, over everything the network can do with its one
\* request.
OutcomesOwed(i) ==
  {_make_api_request("POST", Op(i).endpoint, Op(i).data, self.valves, t) :
     t \in Transports}

\* The request failed in the transport.
RequestFailed(r) ==
  /\ ErrorShaped(r)
  /\ r.fields["error"].t = "str"
  /\ StartsWith(r.fields["error"].s, "API request failed: ")

\* C19: an invocation calls the dispatcher at most once, and exactly once by
\* the time it ends; the call issues exactly one request, also when that
\* request fails (no retry); and the outcome the call is about to return is
\* one that its own request allows, whatever the other invocation did before
\* it.
C19_OneCallNoRetry ==
  \A i \in live :
    /\ DispatcherCalls(i) = (IF Dispatched(i) THEN 1 ELSE 0)
    /\ Ended(i) => DispatcherCalls(i) = 1
    /\ Len(netRequests[i]) = DispatcherCalls(i)
    /\ Dispatched(i)
         => /\ netRequests[i] = <<RequestOwed(i)>>
            /\ pending[i].requests = netRequests[i]
    /\ WaitingForDispatcher(i) => pending[i] \in OutcomesOwed(i)

\* The first invocation's request was refused and it returned the failure
\* after one request; the second invocation, the same operation with the same
\* arguments run after it, got its Response with one request.
C19_Witness ==
  /\ live = InFlight
  /\ \A i \in live : pc[i] = "returned" /\ op[i] = "semantic_search_knowledge"
  /\ args[1] = args[2]
  /\ RequestFailed(ret[1])
  /\ ret[2] = JList(<<ItemKnowledge>>)
  /\ Len(netRequests[1]) = 1
  /\ Len(netRequests[2]) = 1
  /\ \A a \in DOMAIN sinkLog : \A b \in DOMAIN sinkLog :
       a < b => sinkLog[a].inv <= sinkLog[b].inv

\* The span has a trace_id that can be read and is not empty.
HasTraceId(span) ==
  /\ span # JNull
  /\ span.raises = NoException
  /\ span.trace_id.t = "str"
  /\ span.trace_id.s # ""

\* A host is configured.
HostConfigured == LANGFUSE_HOST.t = "str" /\ LANGFUSE_HOST.s # ""

\* C20: get_trace_url_from_span never raises; for a span with a non-empty
\* trace_id and a configured host it returns the host without its trailing
\* slashes, then "/trace/", then the trace_id; it returns None when the
\* trace_id or the host is missing and when reading the span fails.
C20_TraceUrl ==
  \A k \in CallsOf({"get_trace_url_from_span"}) :
    LET call == traceCalls[k]
    IN /\ call.raised = NoException
       /\ IF HasTraceId(call.arg) /\ HostConfigured
          THEN /\ call.value
                   = JStr(RStripSlash(LANGFUSE_HOST.s) \o "/trace/"
                            \o call.arg.trace_id.s)
               /\ ~Contains(call.value.s, "//trace/")
          ELSE call.value = JNull

\* With a host that ends in two slashes the URL of a span was built, and None
\* was returned for None and for a span whose trace_id cannot be read.
C20_Witness ==
  /\ LANGFUSE_HOST = JStr("https://lf.local//")
  /\ Len(traceCalls) = 3
  /\ traceCalls[1].arg = SpanWith(JStr("abc123"))
  /\ traceCalls[1].value = JStr("https://lf.local/trace/abc123")
  /\ traceCalls[2].fn = "get_trace_url_from_span"
  /\ traceCalls[2].arg = JNull
  /\ traceCalls[2].value = JNull
  /\ traceCalls[3].arg = SpanRaising("RuntimeError")
  /\ traceCalls[3].value = JNull

\* C21: the fields of the summary are read defensively: an invocation on the
\* success branch, whatever its Response (a mapping whose count field is
\* missing or null, a sequence, a scalar), raises nothing, and by the time it
\* ends it has emitted its terminal status and returned the Response.
C21_DefensiveSummaryReads ==
  \A i \in live :
    branch[i] = "SUCCESS"
      => /\ exc[i] = NoException
         /\ pc[i] # "raised"
         /\ Ended(i)
              => /\ ret[i] = result[i]
                 /\ SinkSupplied(i) => Len(StatusEvents(i, TRUE)) = 1

\* The description of the start status the sink received from invocation i.
StartDescription(i) == StatusEvents(i, FALSE)[1].event.data.description

\* What the start status of a query operation says before the query.
QueryStartPrefix(o) ==
  IF o = "read_athena_query" THEN Magnifier \o " Executing Athena query: "
  ELSE Elephant \o " Executing PostgreSQL query: "

\* C22: the start status of read_athena_query and read_rds_query shows a query
\* of at most 100 characters in full and a longer query as its first 100
\* characters followed by "..."; the payload passed to the dispatcher, and
\* the request's body, carry the whole query.
C22_QueryPreview ==
  \A i \in live :
    (op[i] \in QueryOps /\ SinkSupplied(i) /\ Len(StatusEvents(i, FALSE)) = 1)
      => LET query == args[i].query.s
         IN /\ StartDescription(i)
                 = QueryStartPrefix(op[i])
                     \o (IF Len(query) <= 100 THEN query
                         ELSE SubSeq(query, 1, 100) \o "...")
            /\ Dispatched(i)
                 => /\ data[i] = [query |-> JStr(query)]
                    /\ netRequests[i][1].json = [query |-> JStr(query)]

\* A query of 101 characters was previewed as 100 characters and "..." and
\* sent whole.
C22_Witness ==
  \E i \in live :
    /\ op[i] = "read_rds_query"
    /\ SinkSupplied(i)
    /\ Len(args[i].query.s) = 101
    /\ Dispatched(i)
    /\ Len(netRequests[i][1].json.query.s) = 101
    /\ Len(StartDescription(i)) = Len(QueryStartPrefix(op[i])) + 103
    /\ EndsWith(StartDescription(i), "x...")

\* A query of exactly 100 characters was previewed in full.
C22_WitnessFull ==
  \E i \in live :
    /\ op[i] = "read_athena_query"
    /\ SinkSupplied(i)
    /\ Len(args[i].query.s) = 100
    /\ Len(StatusEvents(i, FALSE)) = 1
    /\ EndsWith(StartDescription(i), args[i].query.s)

\* Both required keys are set.
KeysPresent == ~KeysAbsent

\* The calls of get_langfuse_client that returned a client.
ClientReturned == {k \in CallsOf({"get_langfuse_client"}) :
                     traceCalls[k].raised = NoException}

\* C23: with both keys present, after any sequence of get_langfuse_client and
\* get_prompt calls at most one client has been constructed, from the three
\* settings; it is the cached client, every call of get_langfuse_client that
\* returns returns it, and once a call has returned it no later call fails
\* to; before it is constructed no call has returned anything; and no step
\* replaces or clears a cached client or constructs another.
C23_ClientSingleton ==
  /\ [](KeysPresent
         => /\ Len(objects) <= 1
            /\ _langfuse_client = (IF objects = <<>> THEN JNull ELSE Ref(1))
            /\ objects # <<>>
                 => objects[1] = Langfuse(LANGFUSE_SECRET_KEY, LANGFUSE_PUBLIC_KEY,
                                          LANGFUSE_HOST)
            /\ objects = <<>>
                 => \A k \in CallsOf({"get_langfuse_client", "get_prompt"}) :
                      traceCalls[k].raised # NoException
            /\ \A k \in ClientReturned : traceCalls[k].value = Ref(1)
            /\ \A k \in ClientReturned :
                 \A l \in CallsOf({"get_langfuse_client"}) :
                   k < l => l \in ClientReturned)
  /\ [][_langfuse_client # JNull
          => /\ _langfuse_client' = _langfuse_client
             /\ objects' = objects]_vars

\* The constructor failed in the first call; the second call constructed and
\* returned the client; get_langfuse_client and get_prompt then used that
\* one client.
C23_Witness ==
  /\ KeysPresent
  /\ Len(traceCalls) = 3
  /\ traceCalls[1].fn = "get_langfuse_client"
  /\ traceCalls[1].raised = "RuntimeError"
  /\ traceCalls[2].fn = "get_langfuse_client"
  /\ traceCalls[2].value = Ref(1)
  /\ traceCalls[3].fn = "get_prompt"
  /\ traceCalls[3].value = PromptText("system")
  /\ Len(objects) = 1
  /\ _langfuse_client = Ref(1)

====
